---- MODULE Spec2Model ----
(***************************************************************************)
(* Tipsport-Analyzer: the scoring engine (src/scoring.py) and the lineup   *)
(* optimizer (src/optimizer.py, src/advanced_optimizer.py).                *)
(*                                                                         *)
(* Units.  Prices and budgets are whole millions.  A budget penalty is     *)
(* held in hundredths (0.15 is 15), so effective points are held in        *)
(* hundredths of a point: raw * (1 - penalty) is raw * (100 - penalty).    *)
(* A statistic is a rational n/d (d = 1 for a value as supplied), season   *)
(* weights are held in thousandths.                                        *)
(***************************************************************************)
EXTENDS Integers, Sequences, FiniteSets, TLC

VARIABLES
    \* ---- budget penalty calls (LineupOptimizer.calculate_effective_points)
    raw_points,        \* the raw_points argument
    total_price,       \* the total_cost argument of the latest call
    penalty,           \* calculate_budget_penalty of the latest call, hundredths
    net_fp,            \* calculate_effective_points of the latest call, hundredths
    prev_price,        \* the total_cost argument of the call before (-1: none)
    prev_net_fp,       \* its result
    bpc,               \* "start", "evaluated", "compared"
    \* ---- one scoring call (FantasyScorer.calculate_points)
    player,            \* the player record handed to calculate_points
    stats,             \* the view _extract_combined_stats returned
    base_points,       \* the value calculate_points returned, a rational
    spc,               \* "ready", "scored"
    \* ---- one optimizer call (build_greedy_lineup / optimize_lineup_iterative)
    players,           \* the player list, each record with its lineup_role
    method,            \* "greedy" or "iterative"
    max_budget,        \* build_greedy_lineup's max_budget
    pc,                \* position of the call
    pos_i,             \* index of the position loop in progress
    grouped,           \* position -> ranked valid players (indices into players)
    starters,          \* list of [idx, copy]: a player object or a copy of it
    substitutes,       \* list of [idx, copy]
    total_cost,        \* total_cost / best_cost
    effective_fp,      \* effective_fp / best_fp / best_points, hundredths
    available_grouped, \* grouped_for_opt of the swap pass
    lineup_ids,        \* the swap pass's set of lineup identities
    used_player_keys,  \* identities used by starters and chosen substitutes
    iteration,         \* passes done by the loop in progress
    lineup,            \* the returned lineup, list of [idx, copy]
    \* ---- one call of a helper (normalize_position, _get_stat)
    fn_name,           \* the helper called
    fn_args,           \* its arguments
    fn_result,         \* what it returned
    fn_again,          \* what it returned when called on its own result
    fpc                \* "ready", "called", "recalled"

bvars == <<raw_points, total_price, penalty, net_fp, prev_price, prev_net_fp, bpc>>
svars == <<player, stats, base_points, spc>>
ovars == <<players, method, max_budget, pc, pos_i, grouped, starters, substitutes,
           total_cost, effective_fp, available_grouped, lineup_ids,
           used_player_keys, iteration, lineup>>

cvars == <<fn_name, fn_args, fn_result, fn_again, fpc>>

vars == <<bvars, svars, ovars, cvars>>

Max(a, b) == IF a >= b THEN a ELSE b
Min(a, b) == IF a <= b THEN a ELSE b

(***************************************************************************)
(* LineupConstraints and the budget penalty                                *)
(***************************************************************************)
base_budget == 100
penalty_per_million == 1
PenaltyScale == 100

\* Bounds of the budget calls.
MaxPrice == 215
MaxRaw == 3

\* A plausible slip: the penalty capped at 100%.
calculate_budget_penalty_capped(cost) ==
    IF cost <= base_budget THEN 0
    ELSE Min(PenaltyScale, (cost - base_budget) * penalty_per_million)

calculate_budget_penalty(cost) ==
    IF cost <= base_budget
    THEN 0
    ELSE LET overspend == cost - base_budget
         IN  overspend * penalty_per_million

\* A plausible slip: the penalty added instead of deducted.
calculate_effective_points_added(raw, cost) ==
    raw * (PenaltyScale + calculate_budget_penalty(cost))

calculate_effective_points(raw, cost) ==
    LET p == calculate_budget_penalty(cost)
    IN  raw * (PenaltyScale - p)

\* AdvancedLineupOptimizer: base_budget and penalty_rate of the constructor.
adv_base_budget == 100
penalty_rate == 1

calculate_penalty(price) ==
    IF price <= adv_base_budget
    THEN 0
    ELSE LET overage == price - adv_base_budget
         IN  overage * penalty_rate

(***************************************************************************)
(* Values of a statistics bag.  A bag is a function from key names to      *)
(* values; a value is a number n/d, None, or a string.                     *)
(***************************************************************************)
Num(n) == [t |-> "num", n |-> n, d |-> 1, s |-> ""]
Rat(n, d) == [t |-> "num", n |-> n, d |-> d, s |-> ""]
Str(s) == [t |-> "str", n |-> 0, d |-> 1, s |-> s]
NoneV == [t |-> "none", n |-> 0, d |-> 1, s |-> ""]

EmptyBag == [k \in {} |-> NoneV]
Absent == [has |-> FALSE, bag |-> EmptyBag]
Present(b) == [has |-> TRUE, bag |-> b]

\* Rational arithmetic on [n, d] with d > 0.
R(n) == [n |-> n, d |-> 1]
RAdd(a, b) ==
    IF a.d = b.d THEN [n |-> a.n + b.n, d |-> a.d]
    ELSE [n |-> a.n * b.d + b.n * a.d, d |-> a.d * b.d]
RScale(a, k) == [n |-> a.n * k, d |-> a.d]
RSub(a, b) == RAdd(a, RScale(b, -1))
RLe(a, b) == a.n * b.d <= b.n * a.d
RLt(a, b) == a.n * b.d < b.n * a.d
REq(a, b) == a.n * b.d = b.n * a.d
RMax(a, b) == IF RLe(b, a) THEN a ELSE b
\* int(x): truncation toward zero
RInt(a) == IF a.n >= 0 THEN a.n \div a.d ELSE -((-a.n) \div a.d)
\* int(x * p / q) for integers p, q > 0
RIntOf(a, p, q) == RInt([n |-> a.n * p, d |-> a.d * q])

\* An integer too large for a float.
Huge == [t |-> "huge", n |-> 0, d |-> 1, s |-> ""]

\* The strings float() reads as a number, among those used here.
NumericStrings ==
    ("12" :> R(12)) @@ (" 7 " :> R(7)) @@ ("3.5" :> [n |-> 7, d |-> 2])

\* float(value) returns: numbers and numeric strings.  On None (skipped
\* before the call) and on other strings it raises ValueError or TypeError.
Floatable(value) ==
    value.t = "num" \/ (value.t = "str" /\ value.s \in DOMAIN NumericStrings)

float(value) ==
    IF value.t = "num" THEN [n |-> value.n, d |-> value.d] ELSE NumericStrings[value.s]

\* float(value) raises OverflowError, which _get_stat does not catch.
Overflows(value) == value.t = "huge"

RECURSIVE _get_stat(_, _)
_get_stat(bag, keys) ==
    IF keys = <<>> THEN R(0)
    ELSE LET key == Head(keys) IN
         IF key \in DOMAIN bag /\ Floatable(bag[key])
         THEN float(bag[key])
         ELSE _get_stat(bag, Tail(keys))

\* The scan reaches a value whose float() raises OverflowError.
RECURSIVE _get_stat_raises(_, _)
_get_stat_raises(bag, keys) ==
    IF keys = <<>> THEN FALSE
    ELSE LET key == Head(keys) IN
         IF key \in DOMAIN bag /\ Overflows(bag[key]) THEN TRUE
         ELSE IF key \in DOMAIN bag /\ Floatable(bag[key]) THEN FALSE
         ELSE _get_stat_raises(bag, Tail(keys))

(***************************************************************************)
(* SeasonBlender                                                           *)
(***************************************************************************)
current_season == "20252026"
previous_season == "20242025"
WeightScale == 1000
\* 1000 * 0.92 / (1 + exp(-0.08 * (g - 35))) for g = 1..82, rounded
Sigmoid ==
    << 57, 61, 66, 71, 77, 82, 89, 95, 102, 110, 118, 126, 135, 145, 155, 165,
       176, 188, 200, 213, 226, 240, 255, 270, 285, 301, 318, 334, 352, 369,
       387, 405, 423, 442, 460, 478, 497, 515, 533, 551, 568, 586, 602, 619,
       635, 650, 665, 680, 694, 707, 720, 732, 744, 755, 765, 775, 785, 794,
       802, 810, 818, 825, 831, 838, 843, 849, 854, 859, 863, 867, 871, 875,
       878, 881, 884, 887, 889, 891, 894, 896, 897, 899 >>

\* A plausible slip: the floor of 15% is left out.
weights_without_floor(current_stats) ==
    LET games_played == RInt(_get_stat(current_stats, <<"gamesPlayed">>)) IN
    IF games_played <= 0 THEN <<150, 850>>
    ELSE LET current_weight == Sigmoid[Min(games_played, 82)]
         IN  <<current_weight, WeightScale - current_weight>>

\* (current_weight, previous_weight) in thousandths; games a whole number
_calculate_dynamic_weights(current_stats) ==
    LET games_played == RInt(_get_stat(current_stats, <<"gamesPlayed">>)) IN
    IF games_played <= 0 THEN <<150, 850>>
    ELSE LET games_capped == Min(games_played, 82)
             current_weight == Max(150, Sigmoid[games_capped])
         IN  <<current_weight, WeightScale - current_weight>>

numeric_keys ==
    << "goals", "assists", "points", "shots", "hits", "blockedShots",
       "powerPlayGoals", "powerPlayPoints", "shorthandedGoals",
       "shorthandedPoints", "gameWinningGoals", "plusMinus", "pim", "wins",
       "losses", "shutouts", "goalsAgainst", "saves" >>

Range(seq) == {seq[i] : i \in 1..Len(seq)}

\* str(season_data.get('season', ''))
SeasonOf(season_data) ==
    IF "season" \notin DOMAIN season_data THEN ""
    ELSE IF season_data["season"].t = "num" THEN
              IF season_data["season"].n = 20252026 THEN "20252026"
              ELSE IF season_data["season"].n = 20242025 THEN "20242025"
              ELSE "other"
    ELSE season_data["season"].s

\* league == 'NHL' and game_type == 2
IsNhlRegular(season_data) ==
    /\ "leagueAbbrev" \in DOMAIN season_data
    /\ season_data["leagueAbbrev"] = Str("NHL")
    /\ "gameTypeId" \in DOMAIN season_data
    /\ season_data["gameTypeId"] = Num(2)

\* for key, value in season_data.items():
\*     if key not in current_stats and value is not None: current_stats[key] = value
MergeSeason(current_stats, season_data) ==
    LET added == {k \in DOMAIN season_data :
                     k \notin DOMAIN current_stats /\ season_data[k].t # "none"}
    IN  [k \in DOMAIN current_stats \cup added |->
            IF k \in DOMAIN current_stats THEN current_stats[k] ELSE season_data[k]]

\* The seasonTotals loop: <<current_stats, previous_stats>> after entries 1..i.
RECURSIVE ScanSeasonTotals(_, _, _)
ScanSeasonTotals(totals, i, start) ==
    IF i = 0 THEN <<start, EmptyBag>>
    ELSE LET before == ScanSeasonTotals(totals, i - 1, start)
             season_data == totals[i]
         IN  IF ~IsNhlRegular(season_data) THEN before
             ELSE IF SeasonOf(season_data) = current_season
                  THEN <<MergeSeason(before[1], season_data), before[2]>>
             ELSE IF SeasonOf(season_data) = previous_season
                  THEN <<before[1], season_data>>
             ELSE before

\* Priority 1, then priority 2: <<current_stats, previous_stats>>
SeasonSources(p) ==
    ScanSeasonTotals(p.seasonTotals, Len(p.seasonTotals),
                     IF p.featuredStats.has THEN p.featuredStats.bag ELSE EmptyBag)

\* Priority 3: the first of these keys that is present, empty or not
FlatSource(p) ==
    IF p.current_season.has THEN p.current_season.bag
    ELSE IF p.stats.has THEN p.stats.bag
    ELSE IF p.current_season_stats.has THEN p.current_season_stats.bag
    ELSE EmptyBag

CurrentStats(p) ==
    IF DOMAIN SeasonSources(p)[1] # {} THEN SeasonSources(p)[1] ELSE FlatSource(p)

PreviousStats(p) == SeasonSources(p)[2]

\* A plausible slip: with no previous games the current value is kept whole.
BlendedValueKeepsCurrent(current_stats, previous_stats, key) ==
    LET w == _calculate_dynamic_weights(current_stats)
        current_games == _get_stat(current_stats, <<"gamesPlayed">>).n
        previous_games == _get_stat(previous_stats, <<"gamesPlayed">>).n
        current_val == _get_stat(current_stats, <<key>>).n
        previous_val == _get_stat(previous_stats, <<key>>).n
    IN  IF previous_games > 0
        THEN Rat(current_val * w[1] * previous_games
                    + previous_val * w[2] * current_games,
                 WeightScale * previous_games)
        ELSE Rat(current_val, 1)

\* combined[key] for a tracked key: per-game rates, weighted, times current games
BlendedValue(current_stats, previous_stats, key) ==
    LET w == _calculate_dynamic_weights(current_stats)
        current_games == _get_stat(current_stats, <<"gamesPlayed">>).n
        previous_games == _get_stat(previous_stats, <<"gamesPlayed">>).n
        current_val == _get_stat(current_stats, <<key>>).n
        previous_val == _get_stat(previous_stats, <<key>>).n
    IN  IF previous_games > 0
        THEN Rat(current_val * w[1] * previous_games
                    + previous_val * w[2] * current_games,
                 WeightScale * previous_games)
        ELSE Rat(current_val * w[1], WeightScale)

\* A plausible slip: games of both seasons added up.
BlendedGamesSummed(current_stats, previous_stats) ==
    Num(_get_stat(current_stats, <<"gamesPlayed">>).n
          + _get_stat(previous_stats, <<"gamesPlayed">>).n)

\* combined['gamesPlayed'] = current_games
BlendedGames(current_stats, previous_stats) ==
    Num(_get_stat(current_stats, <<"gamesPlayed">>).n)

\* A plausible slip: the blend applied without the current_games > 0 guard.
CombineUnguarded(current_stats, previous_stats) ==
    IF DOMAIN previous_stats # {}
    THEN [k \in DOMAIN current_stats \cup Range(numeric_keys) \cup {"gamesPlayed"} |->
             IF k = "gamesPlayed" THEN BlendedGames(current_stats, previous_stats)
             ELSE IF k \in Range(numeric_keys)
                  THEN BlendedValue(current_stats, previous_stats, k)
             ELSE current_stats[k]]
    ELSE current_stats

\* Lines 319-357: the blend of a non-empty current view with the previous one.
Combine(current_stats, previous_stats) ==
    LET current_games == _get_stat(current_stats, <<"gamesPlayed">>)
    IN  IF DOMAIN previous_stats # {} /\ current_games.n > 0
        THEN [k \in DOMAIN current_stats \cup Range(numeric_keys) \cup {"gamesPlayed"} |->
                 IF k = "gamesPlayed" THEN BlendedGames(current_stats, previous_stats)
                 ELSE IF k \in Range(numeric_keys)
                      THEN BlendedValue(current_stats, previous_stats, k)
                 ELSE current_stats[k]]
        ELSE current_stats

\* A plausible slip: the previous season stands in for a missing current one.
_extract_combined_stats_fallback(p) ==
    IF DOMAIN CurrentStats(p) = {} THEN PreviousStats(p)
    ELSE Combine(CurrentStats(p), PreviousStats(p))

_extract_combined_stats(p) ==
    LET current_stats == CurrentStats(p)
        previous_stats == PreviousStats(p)
    IN  IF DOMAIN current_stats = {} THEN EmptyBag
        ELSE Combine(current_stats, previous_stats)

\* The player after the call: the seasonTotals merge writes into the featured
\* sub-block itself when that block is the current view.
PlayerAfterExtract(p) ==
    IF p.featuredStats.has
    THEN [p EXCEPT !.featuredStats.bag = SeasonSources(p)[1]]
    ELSE p

(***************************************************************************)
(* ScoringEngine                                                           *)
(***************************************************************************)
common_scoring ==
    [penalty_2min |-> -2, penalty_5min |-> -4, misconduct_10min |-> -2,
     shot |-> 2, hit |-> 2, plus_minus |-> 2]
forward_scoring ==
    [goal_even |-> 12, goal_pp |-> 10, goal_sh |-> 16, game_winning_goal |-> 4,
     hat_trick |-> 6, assist_even |-> 12, assist_pp |-> 12, assist_sh |-> 12,
     blocked_shot |-> 4]
defense_scoring ==
    [goal_even |-> 20, goal_pp |-> 18, goal_sh |-> 24, game_winning_goal |-> 4,
     hat_trick |-> 6, assist_even |-> 12, assist_pp |-> 12, assist_sh |-> 12,
     blocked_shot |-> 4]
goalie_scoring ==
    [goal_even |-> 40, goal_pp |-> 40, goal_sh |-> 40, game_winning_goal |-> 4,
     hat_trick |-> 6, assist_even |-> 12, assist_pp |-> 12, assist_sh |-> 12,
     win |-> 6, loss |-> -6, shutout |-> 10, save |-> 1, goal_against |-> -4]

RSum4(a, b, c, e) == RAdd(RAdd(a, b), RAdd(c, e))

\* The goal, game-winning-goal, hat-trick and assist part of a skater's points.
SkaterGoalPoints(st, table, hat_from, hat_per) ==
    LET total_goals == _get_stat(st, <<"goals", "g">>)
        pp_goals == _get_stat(st, <<"powerPlayGoals", "ppg">>)
        sh_goals == _get_stat(st, <<"shorthandedGoals", "shg">>)
        even_goals == RMax(R(0), RSub(RSub(total_goals, pp_goals), sh_goals))
        gwg == _get_stat(st, <<"gameWinningGoals", "gwg">>)
        hat_tricks == IF RLe(R(hat_from), total_goals)
                      THEN Max(1, RIntOf(total_goals, 1, hat_per)) ELSE 0
    IN  RAdd(RSum4(RScale(even_goals, table.goal_even),
                   RScale(pp_goals, table.goal_pp),
                   RScale(sh_goals, table.goal_sh),
                   RScale(gwg, table.game_winning_goal)),
             R(hat_tricks * table.hat_trick))

SkaterAssistPoints(st, table) ==
    LET pp_goals == _get_stat(st, <<"powerPlayGoals", "ppg">>)
        sh_goals == _get_stat(st, <<"shorthandedGoals", "shg">>)
        total_assists == _get_stat(st, <<"assists", "a">>)
        pp_assists == RMax(R(0), RSub(_get_stat(st, <<"powerPlayPoints", "ppp">>), pp_goals))
        sh_assists == RMax(R(0), RSub(_get_stat(st, <<"shorthandedPoints", "shp">>), sh_goals))
        even_assists == RMax(R(0), RSub(RSub(total_assists, pp_assists), sh_assists))
    IN  RAdd(RAdd(RScale(even_assists, table.assist_even),
                  RScale(pp_assists, table.assist_pp)),
             RScale(sh_assists, table.assist_sh))

\* Shots, hits, blocked shots and plus/minus.
SkaterPlayPoints(st, table) ==
    LET shots == _get_stat(st, <<"shots", "sog", "s">>)
        hits == _get_stat(st, <<"hits", "h">>)
        blocked == _get_stat(st, <<"blockedShots", "blocked", "bs">>)
        plus_minus == _get_stat(st, <<"plusMinus", "plus_minus_rating", "plusminus">>)
    IN  RSum4(RScale(shots, common_scoring.shot),
              RScale(hits, common_scoring.hit),
              RScale(blocked, table.blocked_shot),
              RScale(plus_minus, common_scoring.plus_minus))

\* int(pim * 0.8 / 2), int(pim * 0.15 / 5), int(pim * 0.05 / 10)
PenaltyPoints(st) ==
    LET pim == _get_stat(st, <<"pim", "penaltyMinutes">>)
        two_min_penalties == RIntOf(pim, 8, 20)
        five_min_penalties == RIntOf(pim, 15, 500)
        misconduct == RIntOf(pim, 5, 1000)
    IN  R(two_min_penalties * common_scoring.penalty_2min
            + five_min_penalties * common_scoring.penalty_5min
            + misconduct * common_scoring.misconduct_10min)

\* The total before the final max(0, points).
SkaterRawPoints(st, table, hat_from, hat_per) ==
    RSum4(SkaterGoalPoints(st, table, hat_from, hat_per),
          SkaterAssistPoints(st, table),
          SkaterPlayPoints(st, table),
          PenaltyPoints(st))

\* A plausible slip: the final floor left out.
_calculate_forward_points_unfloored(st) ==
    SkaterRawPoints(st, forward_scoring, 30, 10)

_calculate_forward_points(st) ==
    RMax(R(0), SkaterRawPoints(st, forward_scoring, 30, 10))

\* A plausible slip: a defender scored from the forward table.
_calculate_defender_points_as_forward(st) ==
    RMax(R(0), SkaterRawPoints(st, forward_scoring, 30, 10))

_calculate_defender_points(st) ==
    RMax(R(0), SkaterRawPoints(st, defense_scoring, 20, 15))

GoalieRawPoints(st) ==
    LET wins == _get_stat(st, <<"wins", "w">>)
        losses == _get_stat(st, <<"losses", "l">>)
        shutouts == _get_stat(st, <<"shutouts", "so">>)
        direct == _get_stat(st, <<"saves", "sv", "savesTotal">>)
        shots_against == _get_stat(st, <<"shotsAgainst", "sa">>)
        goals_against == _get_stat(st, <<"goalsAgainst", "ga">>)
        saves == IF direct.n = 0
                 THEN RMax(R(0), RSub(shots_against, goals_against))
                 ELSE direct
        total_goals == _get_stat(st, <<"goals", "g">>)
        pp_goals == _get_stat(st, <<"powerPlayGoals", "ppg">>)
        sh_goals == _get_stat(st, <<"shorthandedGoals", "shg">>)
        even_goals == RMax(R(0), RSub(RSub(total_goals, pp_goals), sh_goals))
        goal_points ==
            IF total_goals.n > 0
            THEN RAdd(RAdd(RScale(even_goals, goalie_scoring.goal_even),
                           RScale(pp_goals, goalie_scoring.goal_pp)),
                      RScale(sh_goals, goalie_scoring.goal_sh))
            ELSE R(0)
        total_assists == _get_stat(st, <<"assists", "a">>)
        assist_points ==
            IF total_assists.n > 0 THEN SkaterAssistPoints(st, goalie_scoring) ELSE R(0)
    IN  RAdd(RSum4(RScale(wins, goalie_scoring.win),
                   RScale(losses, goalie_scoring.loss),
                   RScale(shutouts, goalie_scoring.shutout),
                   RScale(saves, goalie_scoring.save)),
             RAdd(RScale(goals_against, goalie_scoring.goal_against),
                  RAdd(goal_points, assist_points)))

_calculate_goalie_points(st) == RMax(R(0), GoalieRawPoints(st))

\* The comparisons on pos = position.upper().strip(); see upper and strip below.
\* An accented letter is written as the letter and its mark: A' is A acute,
\* R^ is R caron.
_normalize_position(position) ==
    IF position \in {"G", "GOALIE", "GOALKEEPER", "B", "BRANKA'R", "BRANKAR^"} THEN "G"
    ELSE IF position \in {"D", "DEFENSE", "DEFENDER", "DEFENSEMAN", "DEFENCEMAN",
                          "O", "OBRANCA", "OBRA'NCE"} THEN "D"
    ELSE IF position \in {"F", "C", "LW", "RW", "FORWARD", "ATTACKER", "CENTER",
                          "WING", "U'", "U'TOC^NI'K", "UTOC^NI'K", "L", "R"} THEN "F"
    ELSE "F"

calculate_points(p) ==
    LET position == _normalize_position(p.position)
        st == _extract_combined_stats(p)
    IN  IF DOMAIN st = {} THEN R(0)
        ELSE IF position = "G" THEN _calculate_goalie_points(st)
        ELSE IF position = "D" THEN _calculate_defender_points(st)
        ELSE _calculate_forward_points(st)

(***************************************************************************)
(* LineupOptimizer                                                         *)
(***************************************************************************)
required_positions == [G |-> 1, D |-> 2, F |-> 3]
substitute_positions == [G |-> 1, D |-> 2, F |-> 3]
PositionOrder == <<"G", "D", "F">>
constraints_max_budget == 200
max_iterations == 100
iterations == 1000
TopAlternatives == 20
TopIterative == 5

\* A plausible slip: an unrecognized string handed back as it came.
normalize_position_passthrough(position) ==
    IF position \in {"G", "GOALIE", "GOALKEEPER"} THEN "G"
    ELSE IF position \in {"D", "DEFENSE", "DEFENDER", "DEFENSEMAN", "DEFENCEMAN"} THEN "D"
    ELSE IF position \in {"F", "C", "LW", "RW", "FORWARD", "ATTACKER", "CENTER",
                          "WING", "L", "R"} THEN "F"
    ELSE position

\* The comparisons on pos = position.upper().strip(); see upper and strip below.
normalize_position(position) ==
    IF position \in {"G", "GOALIE", "GOALKEEPER"} THEN "G"
    ELSE IF position \in {"D", "DEFENSE", "DEFENDER", "DEFENSEMAN", "DEFENCEMAN"} THEN "D"
    ELSE IF position \in {"F", "C", "LW", "RW", "FORWARD", "ATTACKER", "CENTER",
                          "WING", "L", "R"} THEN "F"
    ELSE "F"

\* A player record as main.py hands it over: value_score = value_per_cost =
\* total_fantasy_points / cena, projected_points = total_fantasy_points.
value_score(p) ==
    IF p.cena > 0 /\ p.total_fantasy_points > 0
    THEN [n |-> p.total_fantasy_points, d |-> p.cena] ELSE R(0)
value_per_cost(p) == value_score(p)
projected_points(p) == p.total_fantasy_points

Indices(seq) == 1..Len(seq)
Front(seq) == SubSeq(seq, 1, Len(seq) - 1)
Last(seq) == seq[Len(seq)]
Take(seq, n) == SubSeq(seq, 1, Min(n, Len(seq)))

RECURSIVE SumSeq(_)
SumSeq(seq) == IF seq = <<>> THEN 0 ELSE Head(seq) + SumSeq(Tail(seq))

\* sorted(..., reverse=True) on [item, key]: descending, equal keys keep their order
InsertDesc(sorted, x) ==
    LET k == Cardinality({i \in Indices(sorted) : RLe(x.key, sorted[i].key)})
    IN  SubSeq(sorted, 1, k) \o <<x>> \o SubSeq(sorted, k + 1, Len(sorted))

RECURSIVE SortDesc(_)
SortDesc(seq) ==
    IF seq = <<>> THEN <<>> ELSE InsertDesc(SortDesc(Front(seq)), Last(seq))

Items(keyed) == [i \in Indices(keyed) |-> keyed[i].item]

\* The players kept by the filter of build_greedy_lineup, in list order.
ValidPlayers(pool) ==
    SelectSeq([i \in Indices(pool) |-> i],
              LAMBDA i : /\ RLe(R(0), value_score(pool[i]))
                         /\ pool[i].cena > 0
                         /\ pool[i].name # "")

group_players_by_position(pool, idxs) ==
    [pos \in {"G", "D", "F"} |->
        SelectSeq(idxs, LAMBDA i : normalize_position(pool[i].position) = pos)]

rank_players_by_value(pool, idxs) ==
    Items(SortDesc([k \in Indices(idxs) |->
                      [item |-> idxs[k], key |-> value_per_cost(pool[idxs[k]])]]))

\* An entry of a lineup: the player object itself, or alt_player.copy().
Obj(i) == [idx |-> i, copy |-> FALSE]
CopyOf(i) == [idx |-> i, copy |-> TRUE]
RoleOf(pool, e) == IF e.copy THEN "STARTER" ELSE pool[e.idx].lineup_role
PosOf(pool, e) == normalize_position(pool[e.idx].position)
Identity(pool, e) == <<pool[e.idx].name, pool[e.idx].team>>
CostOf(pool, entries) == SumSeq([k \in Indices(entries) |-> pool[entries[k].idx].cena])
PointsOf(pool, entries) ==
    SumSeq([k \in Indices(entries) |-> pool[entries[k].idx].total_fantasy_points])

\* The starter loop of one position: `player` is available[j]; acc holds the
\* starters appended so far, the running total_cost and selected_count.
RECURSIVE FillPosition(_, _, _, _, _, _)
FillPosition(pool, available, j, count, budget, acc) ==
    IF j > Len(available) \/ acc.selected_count >= count THEN acc
    ELSE
      LET p == pool[available[j]]
          take(i) == [picked |-> Append(acc.picked, i),
                      total_cost |-> acc.total_cost + pool[i].cena,
                      selected_count |-> acc.selected_count + 1]
          cheaper == {k \in (j + 1)..Len(available) :
                        /\ pool[available[k]].cena > 0
                        /\ RLt(R(0), value_score(pool[available[k]]))
                        /\ acc.total_cost + pool[available[k]].cena <= budget}
      IN  IF p.cena <= 0 \/ RLe(value_score(p), R(0))
          THEN FillPosition(pool, available, j + 1, count, budget, acc)
          ELSE IF acc.total_cost + p.cena <= budget
          THEN FillPosition(pool, available, j + 1, count, budget, take(available[j]))
          ELSE IF cheaper # {}
          THEN FillPosition(pool, available, j + 1, count, budget,
                            take(available[CHOOSE k \in cheaper : \A m \in cheaper : k <= m]))
          ELSE FillPosition(pool, available, j + 1, count, budget, acc)

SetRole(pool, idxs, role) ==
    [i \in Indices(pool) |->
        IF i \in idxs THEN [pool[i] EXCEPT !.lineup_role = role] ELSE pool[i]]

\* best_sub['replaces'] = reference_starter.get('name'), for each pick in turn
SetReplaces(pool, picked, names) ==
    [i \in Indices(pool) |->
        IF \E k \in Indices(picked) : picked[k] = i
        THEN [pool[i] EXCEPT !.replaces =
                 names[CHOOSE k \in Indices(picked) :
                          picked[k] = i /\ \A m \in Indices(picked) : picked[m] = i => m <= k]]
        ELSE pool[i]]

\* ---- _optimize_lineup_swaps
\* alternatives[:20] for the lineup member e
Alternatives(pool, avail, ids, e) ==
    Take(SelectSeq(avail[PosOf(pool, e)],
                   LAMBDA a : <<pool[a].name, pool[a].team>> \notin ids),
         TopAlternatives)

SwapCost(pool, line, cost, i, a) == cost - pool[line[i].idx].cena + pool[a].cena

SwapPoints(pool, line, cost, i, a) ==
    LET test_raw_fp == PointsOf(pool, [line EXCEPT ![i] = CopyOf(a)])
        test_penalty == calculate_budget_penalty(SwapCost(pool, line, cost, i, a))
    IN  test_raw_fp * (PenaltyScale - test_penalty)

\* new_cost is not held against max_budget * 1.15
SwapAcceptedUncapped(pool, line, cost, fp, budget, i, a) ==
    SwapPoints(pool, line, cost, i, a) > fp

\* new_cost <= max_budget * 1.15 and test_effective_fp > best_fp
SwapAccepted(pool, line, cost, fp, budget, i, a) ==
    /\ SwapCost(pool, line, cost, i, a) * 100 <= budget * 115
    /\ SwapPoints(pool, line, cost, i, a) > fp

\* The (i, k) pairs one pass would accept: lineup member i, its k-th alternative.
SwapChoices(pool, line, avail, ids, cost, fp, budget) ==
    {c \in Indices(line) \X (1..TopAlternatives) :
        LET alts == Alternatives(pool, avail, ids, line[c[1]])
        IN  /\ c[2] <= Len(alts)
            /\ SwapAccepted(pool, line, cost, fp, budget, c[1], alts[c[2]])}

\* The first of them in the order of the two loops.
FirstSwap(choices) ==
    CHOOSE c \in choices :
        \A o \in choices : c[1] < o[1] \/ (c[1] = o[1] /\ c[2] <= o[2])

\* Without `if not improved: break`: only the range of the loop ends it.
AfterPassUnbroken(improved, passes) ==
    IF passes >= max_iterations THEN "subs" ELSE "swap"

\* Where the loop of _optimize_lineup_swaps goes after a pass: on to the next
\* pass, or out of the loop (range exhausted, or `if not improved: break`).
AfterPass(improved, passes) ==
    IF ~improved \/ passes >= max_iterations THEN "subs" ELSE "swap"

\* ---- substitutes of one position (lines 328-383)
\* sorted(position_starters, key=cena, reverse=True)
SortedByCost(pool, entries) ==
    Items(SortDesc([k \in Indices(entries) |->
                      [item |-> entries[k], key |-> R(pool[entries[k].idx].cena)]]))

\* min(position_starters, key=cena): the first of the cheapest
CheapestStarter(pool, entries) ==
    entries[CHOOSE k \in Indices(entries) :
               \A m \in Indices(entries) :
                   \/ pool[entries[k].idx].cena < pool[entries[m].idx].cena
                   \/ (pool[entries[k].idx].cena = pool[entries[m].idx].cena /\ k <= m)]

CheaperAlternatives(pool, available, used, max_cost) ==
    SelectSeq(available,
              LAMBDA a : /\ <<pool[a].name, pool[a].team>> \notin used
                         /\ pool[a].cena < max_cost
                         /\ pool[a].cena > 0
                         /\ pool[a].total_fantasy_points > 0)

\* A plausible slip: the best value per cost instead of the most points.
BestSubByValue(pool, cheaper) ==
    cheaper[CHOOSE k \in Indices(cheaper) :
               \A m \in Indices(cheaper) :
                   \/ RLt(value_per_cost(pool[cheaper[m]]), value_per_cost(pool[cheaper[k]]))
                   \/ (REq(value_per_cost(pool[cheaper[k]]), value_per_cost(pool[cheaper[m]]))
                       /\ k <= m)]

\* max(cheaper_alternatives, key=total_fantasy_points): the first of the best
BestSub(pool, cheaper) ==
    cheaper[CHOOSE k \in Indices(cheaper) :
               \A m \in Indices(cheaper) :
                   \/ pool[cheaper[k]].total_fantasy_points > pool[cheaper[m]].total_fantasy_points
                   \/ (pool[cheaper[k]].total_fantasy_points = pool[cheaper[m]].total_fantasy_points
                       /\ k <= m)]

\* Slots i..count-1 of one position; acc holds the chosen substitutes and the used keys.
RECURSIVE SubstituteSlots(_, _, _, _, _, _)
SubstituteSlots(pool, available, position_starters, i, count, acc) ==
    IF i >= count THEN acc
    ELSE
      LET sorted_position_starters == SortedByCost(pool, position_starters)
          reference_starter ==
              IF i >= Len(sorted_position_starters)
              THEN CheapestStarter(pool, position_starters)
              ELSE sorted_position_starters[i + 1]
          max_cost == pool[reference_starter.idx].cena
          cheaper == CheaperAlternatives(pool, available, acc.used, max_cost)
      IN  IF cheaper = <<>>
          THEN SubstituteSlots(pool, available, position_starters, i + 1, count, acc)
          ELSE LET best_sub == BestSub(pool, cheaper)
               IN  SubstituteSlots(pool, available, position_starters, i + 1, count,
                      [picked |-> Append(acc.picked, best_sub),
                       replaces |-> Append(acc.replaces, pool[reference_starter.idx].name),
                       used |-> acc.used \cup {<<pool[best_sub].name, pool[best_sub].team>>}])

\* ---- optimize_lineup_iterative (lines 520-555)
\* p not in current_lineup, p a player object: some entry is that object
\* (a copy made by the swap pass carries lineup_role and differs from its original)
InLineup(line, i) == \E k \in Indices(line) : line[k] = Obj(i)

\* sorted(position_players, key=value_per_cost)[0]: the first of the lowest
WorstPlayer(pool, position_players) ==
    position_players[CHOOSE k \in Indices(position_players) :
        \A m \in Indices(position_players) :
            \/ RLt(value_per_cost(pool[position_players[k].idx]),
                   value_per_cost(pool[position_players[m].idx]))
            \/ (REq(value_per_cost(pool[position_players[k].idx]),
                    value_per_cost(pool[position_players[m].idx])) /\ k <= m)]

\* The (worst_player, alt_player) pairs of one iteration, in loop order;
\* current_lineup stays the same through the iteration.
RECURSIVE IterativeTrials(_, _, _)
IterativeTrials(pool, current_lineup, n) ==
    IF n > Len(PositionOrder) THEN <<>>
    ELSE
      LET position == PositionOrder[n]
          position_players ==
              SelectSeq(current_lineup, LAMBDA e : PosOf(pool, e) = position)
          all_grouped == group_players_by_position(pool, [i \in Indices(pool) |-> i])
          alternatives ==
              Take(SelectSeq(all_grouped[position], LAMBDA i : ~InLineup(current_lineup, i)),
                   TopIterative)
          here == IF position_players = <<>> THEN <<>>
                  ELSE [k \in Indices(alternatives) |->
                          [worst |-> WorstPlayer(pool, position_players),
                           alt |-> alternatives[k]]]
      IN  here \o IterativeTrials(pool, current_lineup, n + 1)

\* Trials k..Len applied in order: each is kept if it beats the best so far
\* and stays within constraints.max_budget.
RECURSIVE ApplyTrials(_, _, _, _, _)
ApplyTrials(pool, current_lineup, trials, k, best) ==
    IF k > Len(trials) THEN best
    ELSE
      LET test_lineup ==
              Append(SelectSeq(current_lineup, LAMBDA e : e # trials[k].worst),
                     Obj(trials[k].alt))
          test_cost == CostOf(pool, test_lineup)
          test_raw_points ==
              SumSeq([m \in Indices(test_lineup) |->
                        projected_points(pool[test_lineup[m].idx])])
          test_effective == calculate_effective_points(test_raw_points, test_cost)
      IN  IF test_effective > best.points /\ test_cost <= constraints_max_budget
          THEN ApplyTrials(pool, current_lineup, trials, k + 1,
                           [line |-> test_lineup, cost |-> test_cost, points |-> test_effective])
          ELSE ApplyTrials(pool, current_lineup, trials, k + 1, best)

(***************************************************************************)
(* The player records handed to the scoring engine                         *)
(***************************************************************************)
MaxGwg == 1
MaxGoalieGoals == 1

Positions == {"G", "D", "C", "X"}

ScenarioA ==
    [goals |-> Num(20), assists |-> Num(30), shots |-> Num(200), hits |-> Num(50),
     blockedShots |-> Num(10), plusMinus |-> Num(5), pim |-> Num(40),
     gamesPlayed |-> Num(82)]

SkaterBags ==
    { [gamesPlayed |-> Num(gp), goals |-> Num(g), powerPlayGoals |-> Num(ppg),
       gameWinningGoals |-> Num(gwg), assists |-> Num(a),
       powerPlayPoints |-> Num(ppp), shots |-> Num(sh),
       hits |-> Num(sh \div 4), blockedShots |-> Num(sh \div 20),
       pim |-> Num(pim), plusMinus |-> Num(IF pim > 100 THEN -30 ELSE 5)] :
        gp \in {0, 10}, g \in {0, 20, 30}, ppg \in {0, 4}, gwg \in 0..MaxGwg,
        a \in {0, 30}, ppp \in {0, 6}, sh \in {0, 200}, pim \in {0, 40, 200} }

GoalieBags ==
    { [k \in {"gamesPlayed", "wins", "losses", "shutouts", "shotsAgainst",
              "goalsAgainst", "goals", "assists"} \cup sv[1] |->
         CASE k = "gamesPlayed" -> Num(10)
           [] k = "wins" -> Num(w)
           [] k = "losses" -> Num(l)
           [] k = "shutouts" -> Num(1)
           [] k = "shotsAgainst" -> Num(sa)
           [] k = "goalsAgainst" -> Num(ga)
           [] k = "goals" -> Num(g)
           [] k = "assists" -> Num(a)
           [] k = "saves" -> Num(sv[2])] :
        w \in {0, 5}, l \in {0, 20}, sa \in {0, 120}, ga \in {0, 50},
        g \in 0..MaxGoalieGoals, a \in {0, 2},
        sv \in {<<{}, 0>>, <<{"saves"}, 0>>, <<{"saves"}, 100>>} }

\* Alias keys, None and a non-numeric string.
AliasBag ==
    [g |-> Num(3), a |-> Num(4), assists |-> Str("n/a"), sog |-> Num(10),
     gamesPlayed |-> NoneV, pim |-> NoneV, penaltyMinutes |-> Num(12)]

CurrentBags == {EmptyBag, ScenarioA, AliasBag} \cup SkaterBags \cup GoalieBags

PreviousBag(gp) ==
    [gamesPlayed |-> Num(gp), goals |-> Num(40), assists |-> Num(41),
     shots |-> Num(250), pim |-> Num(100), plusMinus |-> Num(-12),
     wins |-> Num(30), losses |-> Num(25), saves |-> Num(1500),
     goalsAgainst |-> Num(160)]

SeasonEntry(season, league, game_type, bag) ==
    [k \in DOMAIN bag \cup {"season", "leagueAbbrev", "gameTypeId"} |->
        IF k = "season" THEN Num(season)
        ELSE IF k = "leagueAbbrev" THEN Str(league)
        ELSE IF k = "gameTypeId" THEN Num(game_type)
        ELSE bag[k]]

NoSources ==
    [position |-> "F", featuredStats |-> Absent, seasonTotals |-> <<>>,
     current_season |-> Absent, stats |-> Absent, current_season_stats |-> Absent]

Layouts ==
    {"stats", "current_season", "featured", "featured_totals", "totals",
     "totals_prev0", "previous_only"}

MkPlayer(position, layout, bag) ==
    LET base == [NoSources EXCEPT !.position = position] IN
    CASE layout = "stats" -> [base EXCEPT !.stats = Present(bag)]
      [] layout = "current_season" ->
            [base EXCEPT !.current_season = Present(bag), !.stats = Present(ScenarioA)]
      [] layout = "featured" ->
            [base EXCEPT !.featuredStats = Present(bag),
                         !.seasonTotals = <<SeasonEntry(20242025, "NHL", 2, PreviousBag(82))>>]
      [] layout = "featured_totals" ->
            [base EXCEPT !.featuredStats = Present(bag),
                         !.seasonTotals = <<SeasonEntry(20252026, "NHL", 2, ScenarioA)>>]
      [] layout = "totals" ->
            [base EXCEPT !.seasonTotals =
                <<SeasonEntry(20242025, "NHL", 2, PreviousBag(82)),
                  SeasonEntry(20252026, "AHL", 2, ScenarioA),
                  SeasonEntry(20252026, "NHL", 2, bag)>>]
      [] layout = "totals_prev0" ->
            [base EXCEPT !.seasonTotals =
                <<SeasonEntry(20252026, "NHL", 2, bag),
                  SeasonEntry(20242025, "NHL", 2, PreviousBag(0))>>]
      [] layout = "previous_only" ->
            [base EXCEPT !.seasonTotals =
                <<SeasonEntry(20242025, "NHL", 2, PreviousBag(82)),
                  SeasonEntry(20252026, "NHL", 3, bag)>>]

ScoreIdle ==
    /\ player = NoSources /\ stats = EmptyBag /\ base_points = R(0) /\ spc = "idle"

ScoreInit ==
    /\ \E position \in Positions, layout \in Layouts, bag \in CurrentBags :
          player = MkPlayer(position, layout, bag)
    /\ stats = EmptyBag
    /\ base_points = R(0)
    /\ spc = "ready"

\* calculate_points(player)
CalculatePoints ==
    /\ spc = "ready"
    /\ stats' = _extract_combined_stats(player)
    /\ base_points' = calculate_points(player)
    /\ player' = PlayerAfterExtract(player)
    /\ spc' = "scored"
    /\ UNCHANGED <<bvars, ovars, cvars>>


BudgetIdle ==
    /\ raw_points = 0 /\ total_price = 0 /\ penalty = 0 /\ net_fp = 0
    /\ prev_price = -1 /\ prev_net_fp = 0 /\ bpc = "idle"

BudgetInit ==
    /\ raw_points \in 0..MaxRaw
    /\ total_price \in 0..MaxPrice
    /\ penalty = 0
    /\ net_fp = 0
    /\ prev_price = -1
    /\ prev_net_fp = 0
    /\ bpc = "start"

\* One call calculate_effective_points(raw_points, total_price).
Evaluate ==
    /\ bpc = "start"
    /\ penalty' = calculate_budget_penalty(total_price)
    /\ net_fp' = calculate_effective_points(raw_points, total_price)
    /\ bpc' = "evaluated"
    /\ UNCHANGED <<raw_points, total_price, prev_price, prev_net_fp>>
    /\ UNCHANGED <<svars, ovars, cvars>>

\* A second call with the same raw_points and another total cost.
Reprice ==
    /\ bpc = "evaluated"
    /\ \E c \in 0..MaxPrice :
        /\ prev_price' = total_price
        /\ prev_net_fp' = net_fp
        /\ total_price' = c
        /\ penalty' = calculate_budget_penalty(c)
        /\ net_fp' = calculate_effective_points(raw_points, c)
    /\ bpc' = "compared"
    /\ UNCHANGED raw_points
    /\ UNCHANGED <<svars, ovars, cvars>>

(***************************************************************************)
(* One optimizer call: main.optimize_lineup hands the scored players to    *)
(* build_greedy_lineup (method greedy) or to optimize_lineup_iterative.    *)
(***************************************************************************)
\* Bound: the largest player pool.
MaxPoolSize == 7

Mk(name, position, cena, total_fantasy_points) ==
    [name |-> name, team |-> "T", position |-> position, cena |-> cena,
     total_fantasy_points |-> total_fantasy_points, lineup_role |-> "",
     replaces |-> ""]

\* Scored players; a pool is a sub-list of these, names unique as main.py leaves them.
Roster ==
    << Mk("G1", "G", 20, 100), Mk("G0", "GOALIE", 10, 0),
       Mk("A", "D", 95, 950), Mk("B", "D", 20, 100),
       Mk("E", "D", 30, 130), Mk("C", "DEFENSE", 30, 120),
       Mk("F1", "C", 10, 80), Mk("F2", "F", 25, 90),
       Mk("F3", "LW", 15, 60), Mk("U", "F", 0, 0), Mk("D0", "D", 10, 0) >>

SubList(seq, keep) == SelectSeq([i \in Indices(seq) |-> i], LAMBDA i : i \in keep)

Pools ==
    {[k \in Indices(SubList(Roster, keep)) |-> Roster[SubList(Roster, keep)[k]]] :
        keep \in {ks \in SUBSET Indices(Roster) : Cardinality(ks) <= MaxPoolSize}}

\* max_budget: the default base_budget * 1.1, or the caller's budget
DefaultBudget == 110
Budgets == {DefaultBudget, 70}

NoGroups == [pos \in {"G", "D", "F"} |-> <<>>]

OptIdle ==
    /\ players = <<>> /\ method = "none" /\ max_budget = 0 /\ pc = "idle"
    /\ pos_i = 1 /\ grouped = NoGroups /\ starters = <<>> /\ substitutes = <<>>
    /\ total_cost = 0 /\ effective_fp = 0 /\ available_grouped = NoGroups
    /\ lineup_ids = {} /\ used_player_keys = {} /\ iteration = 0 /\ lineup = <<>>

OptInit ==
    /\ players \in Pools
    /\ method \in {"greedy", "iterative"}
    /\ max_budget \in (IF method = "greedy" THEN Budgets ELSE {DefaultBudget})
    /\ pc = "start"
    /\ pos_i = 1 /\ grouped = NoGroups /\ starters = <<>> /\ substitutes = <<>>
    /\ total_cost = 0 /\ effective_fp = 0 /\ available_grouped = NoGroups
    /\ lineup_ids = {} /\ used_player_keys = {} /\ iteration = 0 /\ lineup = <<>>

\* Where build_greedy_lineup returns to: the caller, or optimize_lineup_iterative.
Returned == IF method = "greedy" THEN "done" ELSE "iterate"

\* build_greedy_lineup, lines 178-226: filter, early return, group and rank
BuildStart ==
    /\ pc = "start"
    /\ LET valid_players == ValidPlayers(players)
           by_position == group_players_by_position(players, valid_players)
       IN  IF valid_players = <<>>
           THEN /\ pc' = Returned
                /\ UNCHANGED grouped
           ELSE /\ pc' = "fill"
                /\ grouped' = [pos \in {"G", "D", "F"} |->
                                  rank_players_by_value(players, by_position[pos])]
    /\ UNCHANGED <<players, method, max_budget, pos_i, starters, substitutes,
                   total_cost, effective_fp, available_grouped, lineup_ids,
                   used_player_keys, iteration, lineup>>
    /\ UNCHANGED <<bvars, svars, cvars>>

\* lines 231-292 for one position; after the last one, lines 300-309 and 422-428
GreedyFill ==
    /\ pc = "fill"
    /\ LET position == PositionOrder[pos_i]
           acc == FillPosition(players, grouped[position], 1,
                               required_positions[position], max_budget,
                               [picked |-> <<>>, total_cost |-> total_cost,
                                selected_count |-> 0])
           filled == starters \o [k \in Indices(acc.picked) |-> Obj(acc.picked[k])]
           starter_ids == {filled[k].idx : k \in Indices(filled)}
       IN  /\ players' = SetRole(players, Range(acc.picked), "STARTER")
           /\ starters' = filled
           /\ total_cost' = acc.total_cost
           /\ IF pos_i < Len(PositionOrder)
              THEN /\ pos_i' = pos_i + 1
                   /\ UNCHANGED <<pc, available_grouped, lineup_ids, effective_fp>>
              ELSE /\ pos_i' = 1
                   /\ pc' = "swap"
                   /\ available_grouped' =
                          [pos \in {"G", "D", "F"} |->
                              SelectSeq(grouped[pos], LAMBDA i : i \notin starter_ids)]
                   /\ lineup_ids' = {Identity(players, filled[k]) : k \in Indices(filled)}
                   /\ effective_fp' = PointsOf(players, filled)
                                      * (PenaltyScale - calculate_budget_penalty(acc.total_cost))
    /\ UNCHANGED <<method, max_budget, grouped, substitutes, used_player_keys,
                   iteration, lineup>>
    /\ UNCHANGED <<bvars, svars, cvars>>

\* One pass of `for iteration in range(max_iterations)`, lines 430-488
SwapPass ==
    /\ pc = "swap"
    /\ \E choices \in {SwapChoices(players, starters, available_grouped, lineup_ids,
                                   total_cost, effective_fp, max_budget)} :
         IF choices = {}
         THEN /\ pc' = AfterPass(FALSE, iteration + 1)
              /\ UNCHANGED <<starters, total_cost, effective_fp, lineup_ids, iteration>>
         ELSE \E c \in {FirstSwap(choices)} :
              \E current_player \in {starters[c[1]]} :
              \E alt_player \in {Alternatives(players, available_grouped, lineup_ids,
                                              starters[c[1]])[c[2]]} :
                  IF Identity(players, current_player) \notin lineup_ids
                  THEN \* lineup_ids.remove(...) raises KeyError
                       /\ pc' = "error"
                       /\ UNCHANGED <<starters, total_cost, effective_fp, lineup_ids,
                                      iteration>>
                  ELSE /\ lineup_ids' = (lineup_ids \ {Identity(players, current_player)})
                                        \cup {<<players[alt_player].name,
                                                players[alt_player].team>>}
                       /\ starters' = [starters EXCEPT ![c[1]] = CopyOf(alt_player)]
                       /\ total_cost' = SwapCost(players, starters, total_cost,
                                                 c[1], alt_player)
                       /\ effective_fp' = SwapPoints(players, starters, total_cost,
                                                     c[1], alt_player)
                       /\ iteration' = iteration + 1
                       /\ pc' = AfterPass(TRUE, iteration + 1)
    /\ UNCHANGED <<players, method, max_budget, pos_i, grouped, substitutes,
                   available_grouped, used_player_keys, lineup>>
    /\ UNCHANGED <<bvars, svars, cvars>>

\* lines 318-383 for one position; after the last one, lines 386-393
SelectSubstitutes ==
    /\ pc = "subs"
    /\ LET position == PositionOrder[pos_i]
           position_starters ==
               SelectSeq(starters, LAMBDA e : PosOf(players, e) = position)
           used == IF pos_i = 1
                   THEN {Identity(players, starters[k]) : k \in Indices(starters)}
                   ELSE used_player_keys
           none == [picked |-> <<>>, replaces |-> <<>>, used |-> used]
           acc == IF position_starters = <<>> THEN none
                  ELSE SubstituteSlots(players, grouped[position], position_starters,
                                       0, substitute_positions[position], none)
           chosen == substitutes \o [k \in Indices(acc.picked) |-> Obj(acc.picked[k])]
       IN  /\ players' = SetReplaces(SetRole(players, Range(acc.picked), "SUBSTITUTE"),
                                    acc.picked, acc.replaces)
           /\ substitutes' = chosen
           /\ used_player_keys' = acc.used
           /\ IF pos_i < Len(PositionOrder)
              THEN /\ pos_i' = pos_i + 1
                   /\ UNCHANGED <<pc, lineup, iteration>>
              ELSE /\ pos_i' = 1
                   /\ lineup' = starters \o chosen
                   /\ iteration' = 0
                   /\ pc' = Returned
    /\ UNCHANGED <<method, max_budget, grouped, starters, total_cost, effective_fp,
                   available_grouped, lineup_ids>>
    /\ UNCHANGED <<bvars, svars, cvars>>

\* One pass of `for _ in range(iterations)`, lines 520-555.  A pass that keeps
\* nothing leaves best_lineup as it was, and so do all the passes after it.
IterativePass ==
    /\ pc = "iterate"
    /\ LET trials == IterativeTrials(players, lineup, 1)
           best == ApplyTrials(players, lineup, trials, 1,
                               [line |-> lineup, cost |-> total_cost,
                                points |-> effective_fp])
       IN  /\ lineup' = best.line
           /\ total_cost' = best.cost
           /\ effective_fp' = best.points
           /\ iteration' = iteration + 1
           /\ pc' = IF best.points = effective_fp \/ iteration + 1 >= iterations
                    THEN "done" ELSE "iterate"
    /\ UNCHANGED <<players, method, max_budget, pos_i, grouped, starters, substitutes,
                   available_grouped, lineup_ids, used_player_keys>>
    /\ UNCHANGED <<bvars, svars, cvars>>

(***************************************************************************)
(* Position strings.  A raw string is its sequence of characters; the      *)
(* normalizers compare pos = position.upper().strip().                     *)
(***************************************************************************)
LowerLetters ==
    << "a", "b", "c", "d", "e", "f", "g", "h", "i", "j", "k", "l", "m", "n", "o",
       "p", "q", "r", "s", "t", "u", "v", "w", "x", "y", "z",
       "a'", "c^", "i'", "r^", "u'" >>
UpperLetters ==
    << "A", "B", "C", "D", "E", "F", "G", "H", "I", "J", "K", "L", "M", "N", "O",
       "P", "Q", "R", "S", "T", "U", "V", "W", "X", "Y", "Z",
       "A'", "C^", "I'", "R^", "U'" >>
Whitespace == {" ", "\t", "\n"}

\* str.upper()
upper(chars) ==
    [i \in Indices(chars) |->
        IF \E k \in Indices(LowerLetters) : LowerLetters[k] = chars[i]
        THEN UpperLetters[CHOOSE k \in Indices(LowerLetters) : LowerLetters[k] = chars[i]]
        ELSE chars[i]]

\* str.lower(), to write the inputs
lower(chars) ==
    [i \in Indices(chars) |->
        IF \E k \in Indices(UpperLetters) : UpperLetters[k] = chars[i]
        THEN LowerLetters[CHOOSE k \in Indices(UpperLetters) : UpperLetters[k] = chars[i]]
        ELSE chars[i]]

\* str.strip(): leading and trailing whitespace removed
strip(chars) ==
    LET inked == {i \in Indices(chars) : chars[i] \notin Whitespace}
    IN  IF inked = {} THEN <<>>
        ELSE SubSeq(chars, CHOOSE i \in inked : \A k \in inked : i <= k,
                           CHOOSE i \in inked : \A k \in inked : i >= k)

\* The string of a character sequence.
RECURSIVE Join(_)
Join(chars) == IF chars = <<>> THEN "" ELSE Head(chars) \o Join(Tail(chars))

\* LineupOptimizer.normalize_position and FantasyScorer._normalize_position
\* on a raw string.
optimizer_normalize(chars) == normalize_position(Join(strip(upper(chars))))
scorer_normalize(chars) == _normalize_position(Join(strip(upper(chars))))

\* The aliases of both normalizers, and strings neither lists.
PositionWords ==
    { <<"G">>, <<"G", "O", "A", "L", "I", "E">>,
      <<"G", "O", "A", "L", "K", "E", "E", "P", "E", "R">>, <<"B">>,
      <<"B", "R", "A", "N", "K", "A'", "R">>,
      <<"B", "R", "A", "N", "K", "A", "R^">>, <<"D">>,
      <<"D", "E", "F", "E", "N", "S", "E">>,
      <<"D", "E", "F", "E", "N", "D", "E", "R">>,
      <<"D", "E", "F", "E", "N", "S", "E", "M", "A", "N">>,
      <<"D", "E", "F", "E", "N", "C", "E", "M", "A", "N">>, <<"O">>,
      <<"O", "B", "R", "A", "N", "C", "A">>,
      <<"O", "B", "R", "A'", "N", "C", "E">>, <<"F">>, <<"C">>, <<"L", "W">>,
      <<"R", "W">>, <<"F", "O", "R", "W", "A", "R", "D">>,
      <<"A", "T", "T", "A", "C", "K", "E", "R">>,
      <<"C", "E", "N", "T", "E", "R">>, <<"W", "I", "N", "G">>, <<"U'">>,
      <<"U'", "T", "O", "C^", "N", "I'", "K">>,
      <<"U", "T", "O", "C^", "N", "I'", "K">>, <<"L">>, <<"R">>, <<>>,
      <<"X">>, <<"G", "K">>, <<"W">>, <<"U", "T", "I", "L">>,
      <<"G", " ", "D">>, <<"B", "R", "A", "N", "K", "A", "R">> }

RawPositions ==
    UNION {{w, lower(w), <<" ">> \o lower(w) \o <<"\t">>, <<"\n">> \o w, w \o <<" ", " ">>} :
              w \in PositionWords}

CallIdle ==
    /\ fn_name = "none" /\ fn_args = <<>> /\ fn_result = <<>> /\ fn_again = <<>>
    /\ fpc = "idle"

PositionInit ==
    /\ fn_name = "normalize_position"
    /\ fn_args \in RawPositions
    /\ fn_result = <<>>
    /\ fn_again = <<>>
    /\ fpc = "ready"

\* normalize_position(position) by the optimizer and by the scorer
NormalizePosition ==
    /\ fn_name = "normalize_position" /\ fpc = "ready"
    /\ fn_result' = [optimizer |-> optimizer_normalize(fn_args),
                     scorer |-> scorer_normalize(fn_args)]
    /\ fpc' = "called"
    /\ UNCHANGED <<fn_name, fn_args, fn_again>>
    /\ UNCHANGED <<bvars, svars, ovars>>

\* the same call on the code just returned
NormalizeAgain ==
    /\ fn_name = "normalize_position" /\ fpc = "called"
    /\ fn_again' = [optimizer |-> optimizer_normalize(<<fn_result.optimizer>>),
                    scorer |-> scorer_normalize(<<fn_result.scorer>>)]
    /\ fpc' = "recalled"
    /\ UNCHANGED <<fn_name, fn_args, fn_result>>
    /\ UNCHANGED <<bvars, svars, ovars>>

(***************************************************************************)
(* One call _get_stat(stats, *keys)                                        *)
(***************************************************************************)
StatKeys == {"assists", "a", "x"}
StatValues == {Num(0), Num(3), NoneV, Str("n/a"), Str("12"), Str("3.5"), Str(""), Huge}
StatBags == UNION {[present -> StatValues] : present \in SUBSET StatKeys}
KeyLists == {<<>>, <<"assists">>, <<"assists", "a">>, <<"a", "assists">>,
             <<"assists", "a", "x">>}

GetStatInit ==
    /\ fn_name = "_get_stat"
    /\ fn_args \in [bag : StatBags, keys : KeyLists]
    /\ fn_result = <<>>
    /\ fn_again = <<>>
    /\ fpc = "ready"

\* _get_stat(stats, *keys): returns a number or raises
GetStat ==
    /\ fn_name = "_get_stat" /\ fpc = "ready"
    /\ IF _get_stat_raises(fn_args.bag, fn_args.keys)
       THEN fpc' = "raised" /\ UNCHANGED fn_result
       ELSE fpc' = "called" /\ fn_result' = _get_stat(fn_args.bag, fn_args.keys)
    /\ UNCHANGED <<fn_name, fn_args, fn_again>>
    /\ UNCHANGED <<bvars, svars, ovars>>

(***************************************************************************)
(* One call generate_lineup_report(lineup, total_cost, effective_value)    *)
(***************************************************************************)
\* player.get('id'): the id, or None where the record has no 'id' key
get_id(p) == IF "id" \in DOMAIN p THEN Num(p.id) ELSE NoneV

\* starters = [p for p in lineup if p.get('lineup_role') == 'STARTER']
report_starters(line) == SelectSeq(line, LAMBDA p : p.lineup_role = "STARTER")

\* max(starters, key=total_fantasy_points): the first of the best; None if empty
report_captain(line) ==
    LET st == report_starters(line)
    IN  IF st = <<>> THEN <<>>
        ELSE <<st[CHOOSE k \in Indices(st) :
                    /\ \A j \in Indices(st) :
                          st[j].total_fantasy_points <= st[k].total_fantasy_points
                    /\ \A j \in 1..(k - 1) :
                          st[j].total_fantasy_points < st[k].total_fantasy_points]>>

\* captain and player.get('id') == captain.get('id')
captain_mark(line, p) ==
    report_captain(line) # <<>> /\ get_id(p) = get_id(report_captain(line)[1])

\* The starters of one position in the order the report prints them.
report_position(line, position) ==
    LET st == SelectSeq(report_starters(line),
                        LAMBDA p : normalize_position(p.position) = position)
    IN  Items(SortDesc([k \in Indices(st) |->
                          [item |-> st[k], key |-> R(st[k].total_fantasy_points)]]))

\* The names printed with the captain mark, in print order.
captain_marks(line) ==
    LET printed == report_position(line, "G") \o report_position(line, "D")
                      \o report_position(line, "F")
        marked == SelectSeq(printed, LAMBDA p : captain_mark(line, p))
    IN  [k \in Indices(marked) |-> marked[k].name]

\* Bound: the points a reported player can have.
ReportPoints == {10, 20}
ReportNames == <<"P1", "P2", "P3", "P4">>
ReportPosition == [P1 |-> "G", P2 |-> "D", P3 |-> "D", P4 |-> "LW"]

\* Lineups of up to four players; all records carry an id, or none does.
ReportLineups ==
    UNION {
      { [k \in Indices(SubList(ReportNames, keep)) |->
            LET n == SubList(ReportNames, keep)[k]
                base == [name |-> ReportNames[n], team |-> "T",
                         position |-> ReportPosition[ReportNames[n]],
                         total_fantasy_points |-> pts[n], lineup_role |-> role[n]]
            IN  IF ids THEN [key \in DOMAIN base \cup {"id"} |->
                                IF key = "id" THEN 8470000 + n ELSE base[key]]
                ELSE base] :
          pts \in [keep -> ReportPoints],
          role \in [keep -> {"STARTER", "SUBSTITUTE"}],
          ids \in BOOLEAN } :
      keep \in SUBSET Indices(ReportNames) }

ReportInit ==
    /\ fn_name = "generate_lineup_report"
    /\ fn_args \in [lineup : ReportLineups, total_cost : {60, 115}]
    /\ fn_result = <<>>
    /\ fn_again = <<>>
    /\ fpc = "ready"

\* generate_lineup_report: reads its arguments, returns the text
GenerateReport ==
    /\ fn_name = "generate_lineup_report" /\ fpc = "ready"
    /\ fn_result' = [captains |-> captain_marks(fn_args.lineup)]
    /\ fpc' = "called"
    /\ UNCHANGED <<fn_name, fn_args, fn_again>>
    /\ UNCHANGED <<bvars, svars, ovars>>

(***************************************************************************)
(* One call AdvancedLineupOptimizer.optimize_lineup(players)               *)
(***************************************************************************)
\* Bound: the largest pool handed to optimize_lineup.
MaxAdvPool == 3

\* The loop of prepare_player_dataframe up to its first statement that can
\* fail: a player without a price is skipped; for a priced player the loop
\* calls scorer._extract_stats, a method FantasyScorer does not have.
prepare_player_dataframe(pool) ==
    IF \E i \in Indices(pool) : pool[i].cena > 0
    THEN [raised |-> "AttributeError", df |-> <<>>]
    ELSE [raised |-> "", df |-> <<>>]

position_requirements == [G |-> 2, D |-> 4, F |-> 6]
total_players == 12
adv_max_budget == 120

\* The rows of a frame: value per cost grows with the price.
Row(position, price) ==
    [position |-> position, price |-> price, projected_season_fp |-> price * price * 10]

AdvFrames ==
    { << Row("G", 12), Row("G", 10), Row("G", 6),
         Row("D", 12), Row("D", 10), Row("D", 9), Row("D", 8), Row("D", 6),
         Row("F", 14), Row("F", 12), Row("F", 10), Row("F", 9), Row("F", 8), Row("F", 7) >>,
      << Row("G", 12),
         Row("D", 12), Row("D", 10), Row("D", 9), Row("D", 8), Row("D", 6),
         Row("F", 14), Row("F", 12), Row("F", 10), Row("F", 9), Row("F", 8), Row("F", 7),
         Row("F", 5) >>,
      << Row("G", 10), Row("G", 6), Row("D", 9), Row("F", 7), Row("F", 5) >> }

AdvRecords == [cena : {0, 10}, games : {0, 10}, position : {"G", "F"}]

\* The pools: every short one, and the players the frames are made of.
AdvPools ==
    UNION {[1..k -> AdvRecords] : k \in 0..MaxAdvPool}
      \cup {[i \in Indices(df) |->
                [cena |-> df[i].price, games |-> 10, position |-> df[i].position]]
             : df \in AdvFrames}

AdvancedInit ==
    /\ fn_name = "optimize_lineup"
    /\ fn_args \in AdvPools
    /\ fn_result = <<>>
    /\ fn_again = <<>>
    /\ fpc = "ready"

\* optimize_lineup: the dataframe is prepared; an empty one is returned at once
AdvancedOptimize ==
    /\ fn_name = "optimize_lineup" /\ fpc = "ready"
    /\ LET prepared == prepare_player_dataframe(fn_args)
       IN  IF prepared.raised # ""
           THEN fpc' = "raised" /\ fn_result' = [error |-> prepared.raised]
           ELSE /\ fpc' = "called"
                /\ fn_result' = [lineup |-> <<>>, total_cost |-> 0, net_points |-> 0]
    /\ UNCHANGED <<fn_name, fn_args, fn_again>>
    /\ UNCHANGED <<bvars, svars, ovars>>

(***************************************************************************)
(* optimize_lineup from the rounding of the relaxed solution on (lines     *)
(* 282-316).  What scipy's minimize returns is not fixed by this code, so  *)
(* the top_indices of its result are an input: any 12 rows of the frame,   *)
(* or all rows of a frame with fewer.                                      *)
(***************************************************************************)
\* df['value_per_cost'] = df['projected_season_fp'] / df['price']
df_value_per_cost(df, i) == [n |-> df[i].projected_season_fp, d |-> df[i].price]

\* rows.nlargest(n, 'value_per_cost'): the n best, equal values in row order
nlargest(df, rows, n) ==
    Take(Items(SortDesc([k \in Indices(rows) |->
                           [item |-> rows[k], key |-> df_value_per_cost(df, rows[k])]])), n)

\* A plausible slip: the best members are dropped instead of the worst.
nsmallest_best(df, rows, n) ==
    nlargest(df, rows, n)

\* rows.nsmallest(n, 'value_per_cost'): the n worst, equal values in row order
nsmallest(df, rows, n) ==
    Take(Items(SortDesc([k \in Indices(rows) |->
                           [item |-> rows[k],
                            key |-> RScale(df_value_per_cost(df, rows[k]), -1)]])), n)

RowsAt(df, rows, position) == SelectSeq(rows, LAMBDA i : df[i].position = position)

\* _fix_position_constraints from position k on; counts are the
\* position_counts taken before the loop.
RECURSIVE FixPositions(_, _, _, _)
FixPositions(df, selected, counts, k) ==
    IF k > Len(PositionOrder) THEN selected
    ELSE
      LET pos == PositionOrder[k]
          required == position_requirements[pos]
          current == counts[pos]
          available == SelectSeq(RowsAt(df, [i \in Indices(df) |-> i], pos),
                                 LAMBDA i : i \notin Range(selected))
          to_add == nlargest(df, available, required - current)
          to_remove == nsmallest(df, RowsAt(df, selected, pos), current - required)
          fixed == IF current < required
                   THEN (IF Len(available) >= required - current
                         THEN selected \o to_add ELSE selected)
                   ELSE IF current > required
                   THEN SelectSeq(selected, LAMBDA i : i \notin Range(to_remove))
                   ELSE selected
      IN  FixPositions(df, fixed, counts, k + 1)

_fix_position_constraints(df, selected) ==
    FixPositions(df, selected,
                 [pos \in {"G", "D", "F"} |-> Len(RowsAt(df, selected, pos))], 1)

RoundInit ==
    /\ fn_name = "round_and_repair"
    /\ \E df \in AdvFrames :
       \E top \in {t \in SUBSET Indices(df) :
                      Cardinality(t) = Min(total_players, Len(df))} :
          fn_args = [df |-> df, top_indices |-> top]
    /\ fn_result = <<>>
    /\ fn_again = <<>>
    /\ fpc = "ready"

\* lines 282-288: x_binary[top_indices] = 1; selected_df = df[x_binary > 0.5]
Round ==
    /\ fn_name = "round_and_repair" /\ fpc = "ready"
    /\ fn_result' = [selected |-> SelectSeq([i \in Indices(fn_args.df) |-> i],
                                            LAMBDA i : i \in fn_args.top_indices),
                     k |-> 1, total_cost |-> 0, net_points |-> 0]
    /\ fpc' = "rounded"
    /\ UNCHANGED <<fn_name, fn_args, fn_again>>
    /\ UNCHANGED <<bvars, svars, ovars>>

\* lines 291-298 for one position: repair if its count is off
Repair ==
    /\ fn_name = "round_and_repair" /\ fpc = "rounded"
    /\ LET pos == PositionOrder[fn_result.k]
           actual_count == Len(RowsAt(fn_args.df, fn_result.selected, pos))
       IN  fn_result' =
             [fn_result EXCEPT
                !.selected = IF actual_count # position_requirements[pos]
                             THEN _fix_position_constraints(fn_args.df, fn_result.selected)
                             ELSE fn_result.selected,
                !.k = fn_result.k + 1]
    /\ fpc' = IF fn_result.k < Len(PositionOrder) THEN "rounded" ELSE "repaired"
    /\ UNCHANGED <<fn_name, fn_args, fn_again>>
    /\ UNCHANGED <<bvars, svars, ovars>>

\* lines 300-304: the metrics of the returned lineup
FinalMetrics ==
    /\ fn_name = "round_and_repair" /\ fpc = "repaired"
    /\ LET cost == SumSeq([k \in Indices(fn_result.selected) |->
                              fn_args.df[fn_result.selected[k]].price])
           total_projected ==
               SumSeq([k \in Indices(fn_result.selected) |->
                          fn_args.df[fn_result.selected[k]].projected_season_fp])
       IN  fn_result' = [fn_result EXCEPT
                            !.total_cost = cost,
                            !.net_points = total_projected
                                             * (PenaltyScale - calculate_penalty(cost))]
    /\ fpc' = "called"
    /\ UNCHANGED <<fn_name, fn_args, fn_again>>
    /\ UNCHANGED <<bvars, svars, ovars>>

(***************************************************************************)
(* One call _calculate_dynamic_weights(current_stats), and the call for    *)
(* one game more                                                           *)
(***************************************************************************)
\* Bound: the largest games-played count tried (a season has 82 games).
MaxGames == 120

WeightsInit ==
    /\ fn_name = "_calculate_dynamic_weights"
    /\ fn_args \in {[gamesPlayed |-> Num(g)] : g \in 0..MaxGames} \cup {EmptyBag}
    /\ fn_result = <<>>
    /\ fn_again = <<>>
    /\ fpc = "ready"

DynamicWeights ==
    /\ fn_name = "_calculate_dynamic_weights" /\ fpc = "ready"
    /\ fn_result' = _calculate_dynamic_weights(fn_args)
    /\ fn_again' = _calculate_dynamic_weights(
                       [gamesPlayed |-> Num(RInt(_get_stat(fn_args, <<"gamesPlayed">>)) + 1)])
    /\ fpc' = "called"
    /\ UNCHANGED <<fn_name, fn_args>>
    /\ UNCHANGED <<bvars, svars, ovars>>

(***************************************************************************)
(* One call generate_scoring_breakdown(player), next to calculate_points   *)
(* for the same player                                                     *)
(***************************************************************************)
\* "if x > 0: total_points += x * value"
Counted(x, value) == IF RLt(R(0), x) THEN RScale(x, value) ELSE R(0)

BreakdownGoalie(st) ==
    LET wins == _get_stat(st, <<"wins", "w">>)
        losses == _get_stat(st, <<"losses", "l">>)
        shutouts == _get_stat(st, <<"shutouts", "so">>)
        direct == _get_stat(st, <<"saves", "sv", "savesTotal">>)
        shots_against == _get_stat(st, <<"shotsAgainst", "sa">>)
        ga == _get_stat(st, <<"goalsAgainst", "ga">>)
        saves == IF direct.n = 0 THEN RMax(R(0), RSub(shots_against, ga)) ELSE direct
    IN  RAdd(RSum4(Counted(wins, goalie_scoring.win),
                   Counted(losses, goalie_scoring.loss),
                   Counted(shutouts, goalie_scoring.shutout),
                   Counted(saves, goalie_scoring.save)),
             Counted(ga, goalie_scoring.goal_against))

BreakdownSkater(st, scoring_dict) ==
    LET total_goals == _get_stat(st, <<"goals", "g">>)
        pp_goals == _get_stat(st, <<"powerPlayGoals", "ppg">>)
        sh_goals == _get_stat(st, <<"shorthandedGoals", "shg">>)
        even_goals == RMax(R(0), RSub(RSub(total_goals, pp_goals), sh_goals))
        gwg == _get_stat(st, <<"gameWinningGoals", "gwg">>)
        hat_tricks == IF RLe(R(30), total_goals)
                      THEN Max(1, RIntOf(total_goals, 1, 10)) ELSE 0
        total_assists == _get_stat(st, <<"assists", "a">>)
        pp_assists == RMax(R(0), RSub(_get_stat(st, <<"powerPlayPoints", "ppp">>), pp_goals))
        sh_assists == RMax(R(0), RSub(_get_stat(st, <<"shorthandedPoints", "shp">>), sh_goals))
        even_assists == RMax(R(0), RSub(RSub(total_assists, pp_assists), sh_assists))
        shots == _get_stat(st, <<"shots", "sog", "s">>)
        hits == _get_stat(st, <<"hits", "h">>)
        blocked == _get_stat(st, <<"blockedShots", "blocked", "bs">>)
        plus_minus == _get_stat(st, <<"plusMinus", "plus_minus_rating", "plusminus">>)
        pim == _get_stat(st, <<"pim", "penaltyMinutes">>)
        two_min == Max(0, RIntOf(pim, 8, 20))
        five_min == Max(0, RIntOf(pim, 15, 500))
        misconduct == Max(0, RIntOf(pim, 5, 1000))
        goals_part == RAdd(RSum4(Counted(even_goals, scoring_dict.goal_even),
                                 Counted(pp_goals, scoring_dict.goal_pp),
                                 Counted(sh_goals, scoring_dict.goal_sh),
                                 Counted(gwg, scoring_dict.game_winning_goal)),
                           R(hat_tricks * scoring_dict.hat_trick))
        assists_part == RAdd(RAdd(Counted(even_assists, scoring_dict.assist_even),
                                  Counted(pp_assists, scoring_dict.assist_pp)),
                             Counted(sh_assists, scoring_dict.assist_sh))
        play_part == RSum4(Counted(shots, common_scoring.shot),
                           Counted(hits, common_scoring.hit),
                           Counted(blocked, scoring_dict.blocked_shot),
                           RScale(plus_minus, common_scoring.plus_minus))
        penalty_part == IF RLt(R(0), pim)
                        THEN R(two_min * common_scoring.penalty_2min
                                 + five_min * common_scoring.penalty_5min
                                 + misconduct * common_scoring.misconduct_10min)
                        ELSE R(0)
    IN  RSum4(goals_part, assists_part, play_part, penalty_part)

\* The number on the TOTAL FANTASY POINTS line, if the text has one.
generate_scoring_breakdown(p) ==
    LET position == _normalize_position(p.position)
        st == _extract_combined_stats(p)
    IN  IF DOMAIN st = {} THEN [available |-> FALSE, total_points |-> R(0)]
        ELSE [available |-> TRUE,
              total_points |->
                  IF position = "G" THEN BreakdownGoalie(st)
                  ELSE BreakdownSkater(st, IF position = "D" THEN defense_scoring
                                           ELSE forward_scoring)]

BreakdownInit ==
    /\ fn_name = "generate_scoring_breakdown"
    /\ \E position \in Positions, layout \in Layouts, bag \in CurrentBags :
          fn_args = MkPlayer(position, layout, bag)
    /\ fn_result = <<>>
    /\ fn_again = <<>>
    /\ fpc = "ready"

ScoringBreakdown ==
    /\ fn_name = "generate_scoring_breakdown" /\ fpc = "ready"
    /\ fn_result' = generate_scoring_breakdown(fn_args)
    /\ fn_again' = calculate_points(fn_args)
    /\ fpc' = "called"
    /\ UNCHANGED <<fn_name, fn_args>>
    /\ UNCHANGED <<bvars, svars, ovars>>

(***************************************************************************)
(* The blend of _extract_combined_stats (lines 318-357) for one pair of    *)
(* season views                                                            *)
(***************************************************************************)
BlendCurrent ==
    { [gamesPlayed |-> Num(g), goals |-> Num(v), plusMinus |-> Num(pm)] :
        g \in {0, 1, 10, 40, 82}, v \in {0, 20}, pm \in {-12, 5} }

BlendPrevious ==
    { [gamesPlayed |-> Num(g), goals |-> Num(v), plusMinus |-> Num(pm)] :
        g \in {0, 41, 82}, v \in {0, 40}, pm \in {-12, 7} } \cup {EmptyBag}

BlendInit ==
    /\ fn_name = "combine"
    /\ fn_args \in [current_stats : BlendCurrent, previous_stats : BlendPrevious]
    /\ fn_result = <<>>
    /\ fn_again = <<>>
    /\ fpc = "ready"

Blend ==
    /\ fn_name = "combine" /\ fpc = "ready"
    /\ fn_result' = Combine(fn_args.current_stats, fn_args.previous_stats)
    /\ fpc' = "called"
    /\ UNCHANGED <<fn_name, fn_args, fn_again>>
    /\ UNCHANGED <<bvars, svars, ovars>>

(***************************************************************************)
(* Properties of the budget penalty                                        *)
(***************************************************************************)
\* C4: for every total cost the penalty is max(0, total_cost - base_budget) *
\* penalty_rate with no upper cap (LineupOptimizer and AdvancedLineupOptimizer
\* alike) and effective points are raw_points * (1 - penalty); at total cost
\* 115 the penalty is 0.15 and effective points are raw_points * 0.85.
BudgetPenaltyFormula ==
    bpc \in {"evaluated", "compared"} =>
        /\ penalty = Max(0, total_price - base_budget) * penalty_per_million
        /\ calculate_penalty(total_price) = Max(0, total_price - base_budget) * penalty_rate
        /\ net_fp = raw_points * PenaltyScale - raw_points * penalty
        /\ (total_price = 115 => penalty = 15 /\ net_fp = raw_points * 85)

BudgetPenaltyWitness ==
    /\ bpc = "evaluated" /\ total_price = 115 /\ raw_points > 0
    /\ penalty = 15 /\ net_fp = raw_points * 85

\* C5: for fixed raw_points (the program's raw points are never negative),
\* effective points do not increase when the total cost increases, and equal
\* raw_points for every cost up to base_budget.
EffectivePointsMonotone ==
    /\ bpc \in {"evaluated", "compared"} /\ total_price <= base_budget
          => net_fp = raw_points * PenaltyScale
    /\ bpc = "compared" /\ prev_price <= total_price => net_fp <= prev_net_fp

EffectivePointsWitness ==
    /\ bpc = "compared" /\ base_budget < prev_price /\ prev_price < total_price
    /\ net_fp < prev_net_fp

(***************************************************************************)
(* Properties of the scoring engine                                        *)
(***************************************************************************)
Scored == spc = "scored"
ScoredPosition == _normalize_position(player.position)
IsSkater == ScoredPosition \in {"D", "F"}
IntVal(keys) == _get_stat(stats, keys).n

\* C3: calculate_points is never negative, whatever the position and the bag.
PointsNonNegative ==
    Scored => base_points.n >= 0 /\ base_points.d > 0

\* A forward whose linear total is below zero has been scored.
PointsNonNegativeWitness ==
    /\ Scored /\ ScoredPosition = "F" /\ DOMAIN stats # {}
    /\ SkaterRawPoints(stats, forward_scoring, 30, 10).n < 0
    /\ base_points.n = 0

\* The claim's integer-stat, no-previous-season skater.
PlainSkater ==
    /\ Scored /\ IsSkater
    /\ DOMAIN PreviousStats(player) = {}
    /\ stats = CurrentStats(player)

\* The table as claim C8 lists it, on whole numbers.
ListedTable ==
    LET goals == IntVal(<<"goals", "g">>)
        pp == IntVal(<<"powerPlayGoals", "ppg">>)
        sh == IntVal(<<"shorthandedGoals", "shg">>)
        pim == IntVal(<<"pim", "penaltyMinutes">>)
        t == IF ScoredPosition = "D" THEN <<20, 18, 24>> ELSE <<12, 10, 16>>
    IN  Max(0, goals - pp - sh) * t[1] + pp * t[2] + sh * t[3]
        + 12 * IntVal(<<"assists", "a">>)
        + 2 * IntVal(<<"shots", "sog", "s">>)
        + 2 * IntVal(<<"hits", "h">>)
        + 4 * IntVal(<<"blockedShots", "blocked", "bs">>)
        + 2 * IntVal(<<"plusMinus", "plus_minus_rating", "plusminus">>)
        - 2 * ((pim * 8) \div 20) - 4 * ((pim * 15) \div 500) - 2 * ((pim * 5) \div 1000)

\* What the listed table leaves out: game-winning goals, the hat-trick
\* estimate, and power-play / short-handed assists beyond the assist total.
UnlistedPoints ==
    LET goals == IntVal(<<"goals", "g">>)
        assists == IntVal(<<"assists", "a">>)
        ppa == Max(0, IntVal(<<"powerPlayPoints", "ppp">>) - IntVal(<<"powerPlayGoals", "ppg">>))
        sha == Max(0, IntVal(<<"shorthandedPoints", "shp">>) - IntVal(<<"shorthandedGoals", "shg">>))
        hat == IF ScoredPosition = "D"
               THEN (IF goals >= 20 THEN Max(1, goals \div 15) ELSE 0)
               ELSE (IF goals >= 30 THEN Max(1, goals \div 10) ELSE 0)
    IN  4 * IntVal(<<"gameWinningGoals", "gwg">>) + 6 * hat
        + 12 * (Max(assists, ppa + sha) - assists)

\* C8 as stated: the points of a plain skater are the listed table.
SkaterPointsAreListedTable ==
    PlainSkater => base_points = R(ListedTable)

\* C8 amended: the listed table plus game-winning goals x4, the hat-trick
\* bonus and the surplus PP/SH assists, floored at 0; Scenario A gives 1114.
SkaterPointsAreFullTable ==
    /\ PlainSkater => base_points = R(Max(0, ListedTable + UnlistedPoints))
    /\ Scored /\ stats = ScenarioA /\ ScoredPosition = "F" => base_points = R(1114)

SkaterPointsWitness ==
    /\ PlainSkater /\ ScoredPosition = "D"
    /\ IntVal(<<"gameWinningGoals">>) > 0 /\ IntVal(<<"goals">>) >= 20
    /\ base_points.n > ListedTable /\ ListedTable > 0

\* The goalie table as claim C22 states it, on whole numbers: goals at the
\* forward values, saves derived only when no saves statistic is present.
ClaimedGoalieTable ==
    LET goals == IntVal(<<"goals", "g">>)
        pp == IntVal(<<"powerPlayGoals", "ppg">>)
        sh == IntVal(<<"shorthandedGoals", "shg">>)
        goals_against == IntVal(<<"goalsAgainst", "ga">>)
        saves == IF {"saves", "sv", "savesTotal"} \cap DOMAIN stats # {}
                 THEN IntVal(<<"saves", "sv", "savesTotal">>)
                 ELSE Max(0, IntVal(<<"shotsAgainst", "sa">>) - goals_against)
    IN  6 * IntVal(<<"wins", "w">>) - 6 * IntVal(<<"losses", "l">>)
        + 10 * IntVal(<<"shutouts", "so">>) + saves - 4 * goals_against
        + (IF goals > 0
           THEN Max(0, goals - pp - sh) * forward_scoring.goal_even
                + pp * forward_scoring.goal_pp + sh * forward_scoring.goal_sh
           ELSE 0)
        + 12 * IntVal(<<"assists", "a">>)

\* C22: goalie points are wins*6 - losses*6 + shutouts*10 + saves - 4 * goals
\* against, plus goals at the forward values 12/10/16 and assists at 12,
\* floored at 0, with saves derived from shots against only when no saves
\* statistic is present.
GoaliePointsAreClaimedTable ==
    Scored /\ ScoredPosition = "G" /\ stats = CurrentStats(player)
        => base_points = R(Max(0, ClaimedGoalieTable))

\* No source yields a current-season view: every bag that could is absent or empty.
HasNoStats(p) ==
    /\ ~p.featuredStats.has \/ DOMAIN p.featuredStats.bag = {}
    /\ \A i \in 1..Len(p.seasonTotals) :
          ~(IsNhlRegular(p.seasonTotals[i]) /\ SeasonOf(p.seasonTotals[i]) = current_season)
    /\ ~p.current_season.has \/ DOMAIN p.current_season.bag = {}
    /\ ~p.stats.has \/ DOMAIN p.stats.bag = {}
    /\ ~p.current_season_stats.has \/ DOMAIN p.current_season_stats.bag = {}

\* C9: a player with an empty statistics bag, or with no source of current
\* statistics at all, scores exactly 0 in every position.
EmptyStatsScoreZero ==
    Scored /\ HasNoStats(player) => base_points = R(0)

EmptyStatsWitness ==
    /\ Scored /\ HasNoStats(player) /\ ScoredPosition = "G"
    /\ Len(player.seasonTotals) > 0 /\ base_points = R(0)

\* The four sources of the current-season view in their order of priority:
\* featured sub-block, season-tagged records of the current NHL regular
\* season, flat current-season bag, generic stats bag.
SourceOrder(p) ==
    << p.featuredStats.bag,
       ScanSeasonTotals(p.seasonTotals, Len(p.seasonTotals), EmptyBag)[1],
       p.current_season.bag,
       p.stats.bag >>

FirstNonEmpty(sources) ==
    IF \E i \in 1..Len(sources) : DOMAIN sources[i] # {}
    THEN sources[CHOOSE i \in 1..Len(sources) :
                    /\ DOMAIN sources[i] # {}
                    /\ \A j \in 1..(i - 1) : DOMAIN sources[j] = {}]
    ELSE EmptyBag

\* C21: the current-season view comes from exactly one source, the first
\* non-empty one in the order of priority, so the statistics the call works
\* with are that source blended with the previous season and hold no value
\* of a source of lower priority.
CurrentViewFromOneSource ==
    [][spc = "ready" /\ spc' = "scored" =>
          LET view == FirstNonEmpty(SourceOrder(player))
          IN  stats' = IF DOMAIN view = {} THEN EmptyBag
                       ELSE Combine(view, PreviousStats(player))]_vars

\* C10: with previous-season data and current games played > 0, the blended
\* view's gamesPlayed is the current season's gamesPlayed.
BlendedGamesPlayed ==
    Scored /\ DOMAIN PreviousStats(player) # {}
           /\ _get_stat(CurrentStats(player), <<"gamesPlayed">>).n > 0
       => /\ "gamesPlayed" \in DOMAIN stats
          /\ REq(_get_stat(stats, <<"gamesPlayed">>),
                 _get_stat(CurrentStats(player), <<"gamesPlayed">>))

BlendedGamesWitness ==
    /\ Scored
    /\ _get_stat(PreviousStats(player), <<"gamesPlayed">>).n > 0
    /\ _get_stat(CurrentStats(player), <<"gamesPlayed">>).n > 0
    /\ stats # CurrentStats(player)
    /\ stats["gamesPlayed"] = Num(_get_stat(CurrentStats(player), <<"gamesPlayed">>).n)

optimizer_aliases ==
    {"G", "GOALIE", "GOALKEEPER",
     "D", "DEFENSE", "DEFENDER", "DEFENSEMAN", "DEFENCEMAN",
     "F", "C", "LW", "RW", "FORWARD", "ATTACKER", "CENTER", "WING", "L", "R"}
scorer_aliases ==
    optimizer_aliases \cup {"B", "BRANKA'R", "BRANKAR^", "O", "OBRANCA", "OBRA'NCE",
                            "U'", "U'TOC^NI'K", "UTOC^NI'K"}

PositionCalled == fn_name = "normalize_position" /\ fpc \in {"called", "recalled"}

\* C12: each normalizer maps every position string to one of G, D, F, maps
\* its own result to itself, and maps every string it does not list to F.
PositionNormalizationTotalIdempotent ==
    PositionCalled =>
        /\ fn_result.optimizer \in {"G", "D", "F"}
        /\ fn_result.scorer \in {"G", "D", "F"}
        /\ Join(strip(upper(fn_args))) \notin optimizer_aliases => fn_result.optimizer = "F"
        /\ Join(strip(upper(fn_args))) \notin scorer_aliases => fn_result.scorer = "F"
        /\ fpc = "recalled" => fn_again = fn_result

\* " brankar^\t": listed by the scorer only, lower case, padded.
PositionNormalizationWitness ==
    /\ PositionCalled /\ fpc = "recalled"
    /\ fn_args = <<" ", "b", "r", "a", "n", "k", "a", "r^", "\t">>
    /\ fn_result = [optimizer |-> "F", scorer |-> "G"]
    /\ fn_again = fn_result

(***************************************************************************)
(* Properties of _get_stat                                                 *)
(***************************************************************************)
\* The first alias present in the bag, as a set of at most one key.
FirstPresent(bag, keys) ==
    {keys[i] : i \in {i \in Indices(keys) :
                        /\ keys[i] \in DOMAIN bag
                        /\ \A k \in 1..(i - 1) : keys[k] \notin DOMAIN bag}}

\* C13: _get_stat returns the value of the first alias present, as a number;
\* 0 when that value is not numeric; 0 when no alias is present; it never
\* raises.
GetStatFirstPresentOrZero ==
    fn_name = "_get_stat" /\ fpc # "ready" =>
        /\ fpc # "raised"
        /\ \A key \in FirstPresent(fn_args.bag, fn_args.keys) :
              fn_result = IF Floatable(fn_args.bag[key]) THEN float(fn_args.bag[key])
                          ELSE R(0)
        /\ FirstPresent(fn_args.bag, fn_args.keys) = {} => fn_result = R(0)

(***************************************************************************)
(* Properties of the lineup optimizer                                      *)
(***************************************************************************)
OptReturned == pc = "done"

\* The entries of the returned lineup that are not substitutes.
ReturnedStarters == SelectSeq(lineup, LAMBDA e : RoleOf(players, e) # "SUBSTITUTE")

StartersOf(position) ==
    Cardinality({k \in Indices(starters) : PosOf(players, starters[k]) = position})

ValidOf(position) ==
    Len(group_players_by_position(players, ValidPlayers(players))[position])

\* C1: the lineup the optimizer returns holds no player identity (name, team)
\* twice across starters and substitutes; a budget pick of the forward scan is
\* not picked again when the ranked list reaches it.
LineupExclusive ==
    OptReturned =>
        \A k, m \in Indices(lineup) :
            Identity(players, lineup[k]) = Identity(players, lineup[m]) => k = m

\* C2: when every position has at least its required count of valid
\* candidates, the starters build_greedy_lineup returns hold exactly the
\* required count of every position; and never more than the required count.
PositionQuotaExact ==
    (OptReturned /\ method = "greedy") =>
        /\ \A position \in {"G", "D", "F"} :
              StartersOf(position) <= required_positions[position]
        /\ (\A position \in {"G", "D", "F"} :
               ValidOf(position) >= required_positions[position])
           => \A position \in {"G", "D", "F"} :
                 StartersOf(position) = required_positions[position]

\* The keys in use when the k-th substitute was chosen: the starters and the
\* substitutes chosen before it.
UsedBefore(k) ==
    {Identity(players, starters[m]) : m \in Indices(starters)}
        \cup {Identity(players, substitutes[m]) : m \in 1..(k - 1)}

\* The starters named by the k-th substitute's `replaces`.
Replaced(k) ==
    {m \in Indices(starters) :
        players[starters[m].idx].name = players[substitutes[k].idx].replaces}

\* Pool players of the position of starter m, cheaper than it, not in use.
EligibleSubs(k, m) ==
    {i \in Indices(players) :
        /\ normalize_position(players[i].position) = PosOf(players, starters[m])
        /\ players[i].cena < players[starters[m].idx].cena
        /\ <<players[i].name, players[i].team>> \notin UsedBefore(k)}

\* C14: each substitute has the position of the starter it replaces, costs
\* strictly less, is neither a starter nor an earlier substitute, and has the
\* most total fantasy points of the pool players of which that is true when
\* it is chosen; a position gets at most substitute_positions[pos] of them.
SubstitutesWellChosen ==
    /\ \A k \in Indices(substitutes) :
          /\ Replaced(k) # {}
          /\ \A m \in Replaced(k) :
                /\ substitutes[k].idx \in EligibleSubs(k, m)
                /\ \A i \in EligibleSubs(k, m) :
                      players[i].total_fantasy_points
                          <= players[substitutes[k].idx].total_fantasy_points
    /\ \A position \in {"G", "D", "F"} :
          Cardinality({k \in Indices(substitutes) :
                          PosOf(players, substitutes[k]) = position})
              <= substitute_positions[position]

\* Two substitutes of one position, behind starters one of which a swap
\* brought in, with a cheaper candidate of fewer points left unchosen.
SubstitutesWitness ==
    /\ pc = "done"
    /\ \E k, m \in Indices(substitutes) :
          k # m /\ PosOf(players, substitutes[k]) = PosOf(players, substitutes[m])
    /\ \E m \in Indices(starters) : starters[m].copy
    /\ \E k \in Indices(substitutes) : \E m \in Replaced(k) : \E i \in EligibleSubs(k, m) :
          players[i].total_fantasy_points
              < players[substitutes[k].idx].total_fantasy_points

\* The positions GreedyFill is done with, by their index in the fill order.
FilledPositions ==
    IF pc = "fill" THEN 1..(pos_i - 1)
    ELSE IF pc = "swap" /\ iteration = 0 THEN Indices(PositionOrder)
    ELSE {}

\* The running cost when position n was done: the starters of positions 1..n.
RunningCostAfter(n) ==
    CostOf(players, SelectSeq(starters,
        LAMBDA e : \E k \in 1..n : PosOf(players, e) = PositionOrder[k]))

\* The first candidate of a ranked list that fits the budget left at `before`, 0 if none.
FirstAffordable(pool, available, before, budget) ==
    IF \E k \in Indices(available) : before + pool[available[k]].cena <= budget
    THEN CHOOSE k \in Indices(available) :
            /\ before + pool[available[k]].cena <= budget
            /\ \A j \in 1..(k - 1) : before + pool[available[j]].cena > budget
    ELSE 0

\* C15: GreedyFill accepts a player only within max_budget, so the starters'
\* cost at its end is at most max_budget; and when the top-ranked candidate
\* of a position is unaffordable, the next affordable candidate later in that
\* position's ranked list is taken as a starter.
GreedyFillAffordable ==
    (pc = "fill" \/ (pc = "swap" /\ iteration = 0)) =>
        /\ total_cost = CostOf(players, starters)
        /\ total_cost <= max_budget
        /\ \A n \in FilledPositions :
              LET available == grouped[PositionOrder[n]]
                  k == FirstAffordable(players, available, RunningCostAfter(n - 1),
                                       max_budget)
              IN  k > 1 => \E m \in Indices(starters) : starters[m].idx = available[k]

\* The number of entries of a lineup at a normalized position.
CountAt(pool, line, position) ==
    Cardinality({k \in Indices(line) : PosOf(pool, line[k]) = position})

\* The effective points of a lineup: its points after the penalty of its cost.
EffectiveOf(pool, line) ==
    PointsOf(pool, line) * (PenaltyScale - calculate_budget_penalty(CostOf(pool, line)))

\* A step of SwapOptimize that accepts a swap.
SwapStep == pc = "swap" /\ starters' # starters

\* C16: every swap SwapOptimize accepts replaces exactly one starter by a
\* candidate of the same normalized position that is not in the lineup,
\* strictly increases the lineup's effective points and leaves the cost at
\* most 1.15 * max_budget; so over any step of the pass the starters per
\* position are unchanged, the effective points do not decrease and the cost
\* stays at most 1.15 * max_budget.
SwapsImproveWithinCap ==
    [][/\ SwapStep =>
            /\ Len(starters') = Len(starters)
            /\ \E i \in Indices(starters) :
                  /\ \A k \in Indices(starters) \ {i} : starters'[k] = starters[k]
                  /\ PosOf(players, starters'[i]) = PosOf(players, starters[i])
                  /\ \A k \in Indices(starters) :
                        Identity(players, starters[k]) # Identity(players, starters'[i])
            /\ effective_fp = EffectiveOf(players, starters)
            /\ effective_fp' = EffectiveOf(players, starters')
            /\ effective_fp' > effective_fp
            /\ total_cost' = CostOf(players, starters')
      /\ pc = "swap" =>
            /\ \A position \in {"G", "D", "F"} :
                  CountAt(players', starters', position)
                      = CountAt(players, starters, position)
            /\ effective_fp' >= effective_fp
            /\ total_cost' * 100 <= max_budget * 115]_vars

\* Two swaps have been accepted, the second at a cost above max_budget.
SwapsWitness ==
    /\ pc \in {"swap", "subs"}
    /\ iteration >= 2
    /\ \E k \in Indices(starters) : starters[k].copy
    /\ total_cost > max_budget
    /\ effective_fp = EffectiveOf(players, starters)

SwapOptimizeReturned == pc = "subs" /\ pos_i = 1 /\ iteration < max_iterations

\* The valid players outside the lineup at the position of starter i.
Outside(i) ==
    {a \in Range(ValidPlayers(players)) :
        /\ normalize_position(players[a].position) = PosOf(players, starters[i])
        /\ \A k \in Indices(starters) :
              Identity(players, starters[k]) # <<players[a].name, players[a].team>>}

\* C18: when SwapOptimize ends before its cap, no exchange of a starter for a
\* valid same-position player outside the lineup (a starter swapped out
\* earlier included) keeps the cost at most 1.15 * max_budget and strictly
\* increases the effective points.
SwapLocalOptimum ==
    SwapOptimizeReturned =>
        \A i \in Indices(starters) : \A a \in Outside(i) :
            ~ SwapAccepted(players, starters, total_cost, effective_fp, max_budget, i, a)

\* C19: a position with exactly as many valid candidates as its required
\* count has all of them selected as starters by GreedyFill, affordable
\* within max_budget or not.
ExactCountAllSelected ==
    \A n \in FilledPositions :
        Len(grouped[PositionOrder[n]]) = required_positions[PositionOrder[n]] =>
            \A k \in Indices(grouped[PositionOrder[n]]) :
                \E m \in Indices(starters) :
                    starters[m] = Obj(grouped[PositionOrder[n]][k])

\* C20: a named player with price > 0 and value_score = 0 is eligible: where
\* such a player is the only affordable candidate of a position, GreedyFill
\* selects that player as a starter.
ZeroValueEligible ==
    \A n \in FilledPositions :
        LET available == grouped[PositionOrder[n]]
            fits(k) == RunningCostAfter(n - 1) + players[available[k]].cena <= max_budget
        IN  \A k \in Indices(available) :
                ( /\ value_score(players[available[k]]) = R(0)
                  /\ fits(k)
                  /\ \A j \in Indices(available) \ {k} : ~ fits(j) ) =>
                    \E m \in Indices(starters) : starters[m].idx = available[k]

\* C6: build_greedy_lineup runs its three phases to completion for every
\* pool; no step reaches an error state.
NoErrorState == pc # "error"

\* C7: in the returned triple, by either method, total_cost is the sum of the
\* starters' prices and effective_points is the starters' total fantasy points
\* times (1 - penalty(total_cost)); substitutes add to neither.
TotalsFromStartersOnly ==
    OptReturned =>
        /\ total_cost = CostOf(players, ReturnedStarters)
        /\ effective_fp = PointsOf(players, ReturnedStarters)
                          * (PenaltyScale - calculate_budget_penalty(total_cost))

\* C23: the report marks exactly one starter as captain whenever the lineup
\* has a starter, and that starter has the maximum total fantasy points of
\* the starters, with or without an 'id' field on the records; the marking
\* leaves the lineup and its total cost as they were.
ExactlyOneCaptain ==
    fn_name = "generate_lineup_report" /\ fpc = "called" =>
        LET st == report_starters(fn_args.lineup)
        IN  /\ st = <<>> => fn_result.captains = <<>>
            /\ st # <<>> =>
                  /\ Len(fn_result.captains) = 1
                  /\ \E k \in Indices(st) :
                        /\ st[k].name = fn_result.captains[1]
                        /\ \A j \in Indices(st) :
                              st[j].total_fantasy_points <= st[k].total_fantasy_points

\* C24: optimize_lineup of the advanced optimizer returns a lineup without
\* failing for every pool that holds a priced player with games played.
AdvancedReturnsLineup ==
    /\ fn_name = "optimize_lineup" /\ fpc # "ready"
    /\ \E i \in Indices(fn_args) : fn_args[i].cena > 0 /\ fn_args[i].games > 0
    => fpc = "called" /\ fn_result.lineup # <<>>

\* The rows of a position in the frame, in the rounded selection and in the
\* selection as it stands.
FramePos(pos) == Range(RowsAt(fn_args.df, [i \in Indices(fn_args.df) |-> i], pos))
RoundedPos(pos) == FramePos(pos) \cap fn_args.top_indices
SelectedPos(pos) == FramePos(pos) \cap Range(fn_result.selected)
Repaired == fn_name = "round_and_repair" /\ fpc \in {"repaired", "called"}

\* The pass taken on its own, from line 282 on: every position with at least
\* its required count of candidates in the frame holds exactly that count
\* (2 G, 4 D, 6 F); a short position has gained the best value-per-cost
\* unselected candidates, an over-full one has lost its worst value-per-cost
\* members, and no row is selected twice.
RepairMeetsQuota ==
    Repaired =>
        /\ \A i, j \in Indices(fn_result.selected) :
              fn_result.selected[i] = fn_result.selected[j] => i = j
        /\ \A pos \in {"G", "D", "F"} :
              Cardinality(FramePos(pos)) >= position_requirements[pos] =>
                /\ Cardinality(SelectedPos(pos)) = position_requirements[pos]
                /\ Cardinality(RoundedPos(pos)) <= position_requirements[pos] =>
                      /\ RoundedPos(pos) \subseteq SelectedPos(pos)
                      /\ \A a \in SelectedPos(pos) \ RoundedPos(pos) :
                         \A b \in FramePos(pos) \ SelectedPos(pos) :
                            RLe(df_value_per_cost(fn_args.df, b),
                                df_value_per_cost(fn_args.df, a))
                /\ Cardinality(RoundedPos(pos)) >= position_requirements[pos] =>
                      /\ SelectedPos(pos) \subseteq RoundedPos(pos)
                      /\ \A r \in RoundedPos(pos) \ SelectedPos(pos) :
                         \A kept \in SelectedPos(pos) :
                            RLe(df_value_per_cost(fn_args.df, r),
                                df_value_per_cost(fn_args.df, kept))

\* The rounding left the goalies one short and the defenders one over; the
\* repair has added a goalie and dropped a defender.
RepairWitness ==
    /\ Repaired
    /\ Cardinality(RoundedPos("G")) = 1 /\ Cardinality(RoundedPos("D")) = 5
    /\ Cardinality(FramePos("G")) = 3
    /\ Cardinality(SelectedPos("G")) = 2 /\ Cardinality(SelectedPos("D")) = 4
    /\ Len(fn_result.selected) = total_players

\* The cost of the cheapest selection that meets every quota; -1 if none does.
CheapestQuotaCost(df) ==
    IF \E pos \in {"G", "D", "F"} :
          Len(RowsAt(df, [i \in Indices(df) |-> i], pos)) < position_requirements[pos]
    THEN -1
    ELSE SumSeq([k \in Indices(PositionOrder) |->
            LET rows == RowsAt(df, [i \in Indices(df) |-> i], PositionOrder[k])
                cheapest == Take(Items(SortDesc([j \in Indices(rows) |->
                                [item |-> rows[j], key |-> R(-df[rows[j]].price)]])),
                                 position_requirements[PositionOrder[k]])
            IN  SumSeq([j \in Indices(cheapest) |-> df[cheapest[j]].price])])

\* The pass taken on its own: the selection it ends with costs at most
\* max_budget whenever the frame holds a quota-satisfying selection within
\* max_budget.
RepairedWithinBudget ==
    /\ fn_name = "round_and_repair" /\ fpc = "called"
    /\ CheapestQuotaCost(fn_args.df) >= 0
    /\ CheapestQuotaCost(fn_args.df) <= adv_max_budget
    => fn_result.total_cost <= adv_max_budget

\* The players of a pool that prepare_player_dataframe is to keep.
Candidates(pool) ==
    LET kept == SelectSeq(pool, LAMBDA p : p.cena > 0 /\ p.games > 0)
    IN  [i \in Indices(kept) |-> [position |-> kept[i].position, price |-> kept[i].cena]]

AdvancedReturned == fn_name = "optimize_lineup" /\ fpc # "ready"

\* C25: after the rounding and the repair pass of optimize_lineup every
\* position with at least its required count of candidates in the pool holds
\* exactly that count (2 G, 4 D, 6 F) in the selection, no player twice.
AdvancedMeetsQuota ==
    AdvancedReturned =>
        \A pos \in {"G", "D", "F"} :
            LET df == Candidates(fn_args)
            IN  Len(RowsAt(df, [i \in Indices(df) |-> i], pos))
                    >= position_requirements[pos]
                => /\ fpc = "called"
                   /\ Len(SelectSeq(fn_result.lineup, LAMBDA p : p.position = pos))
                        = position_requirements[pos]

\* C26: the lineup optimize_lineup returns costs at most max_budget whenever
\* the pool holds a quota-satisfying selection within max_budget.
AdvancedWithinBudget ==
    /\ AdvancedReturned
    /\ CheapestQuotaCost(Candidates(fn_args)) >= 0
    /\ CheapestQuotaCost(Candidates(fn_args)) <= adv_max_budget
    => fpc = "called" /\ fn_result.total_cost <= adv_max_budget

WeightsCalled == fn_name = "_calculate_dynamic_weights" /\ fpc = "called"
GamesOf(bag) == RInt(_get_stat(bag, <<"gamesPlayed">>))

\* C27: for every games-played count g the weights satisfy w_previous =
\* 1 - w_current and 0.15 <= w_current <= 1.0; w_current is exactly 0.15 at
\* g = 0, does not decrease from g to g + 1, and is constant from g = 82 on.
SeasonWeightsShape ==
    WeightsCalled =>
        /\ fn_result[2] = WeightScale - fn_result[1]
        /\ 150 <= fn_result[1] /\ fn_result[1] <= WeightScale
        /\ GamesOf(fn_args) = 0 => fn_result[1] = 150
        /\ fn_result[1] <= fn_again[1]
        /\ GamesOf(fn_args) >= 82 => fn_again[1] = fn_result[1]

\* A call past the floor and before the cap: the weight has left 15% and
\* still grows with the next game.
SeasonWeightsWitness ==
    /\ WeightsCalled
    /\ GamesOf(fn_args) = 40
    /\ fn_result[1] > 150 /\ fn_again[1] > fn_result[1]

\* C28: the optimizer's normalize_position and the scorer's
\* _normalize_position return the same code for every raw position string.
NormalizersAgree ==
    fn_name = "normalize_position" /\ fpc \in {"called", "recalled"}
        => fn_result.optimizer = fn_result.scorer

\* The total calculate_points would return without its final max(0, .).
UnflooredPoints(p) ==
    LET position == _normalize_position(p.position)
        st == _extract_combined_stats(p)
    IN  IF position = "G" THEN GoalieRawPoints(st)
        ELSE IF position = "D" THEN SkaterRawPoints(st, defense_scoring, 20, 15)
        ELSE SkaterRawPoints(st, forward_scoring, 30, 10)

\* C29: for every player with statistics whose unfloored total is >= 0 the
\* total of the breakdown's per-category contributions equals
\* calculate_points, for forwards, defenders and goalies.
BreakdownTotalIsPoints ==
    /\ fn_name = "generate_scoring_breakdown" /\ fpc = "called"
    /\ fn_result.available
    /\ RLe(R(0), UnflooredPoints(fn_args))
    => REq(fn_result.total_points, fn_again)

\* The blend has run: a previous record exists and current games > 0.
Blended ==
    /\ fn_name = "combine" /\ fpc = "called"
    /\ DOMAIN fn_args.previous_stats # {}
    /\ _get_stat(fn_args.current_stats, <<"gamesPlayed">>).n > 0

\* previous_val / previous_games * current_games, 0 without previous games
PreviousRateProjected(key) ==
    LET previous_games == _get_stat(fn_args.previous_stats, <<"gamesPlayed">>).n
    IN  IF previous_games > 0
        THEN [n |-> _get_stat(fn_args.previous_stats, <<key>>).n
                      * _get_stat(fn_args.current_stats, <<"gamesPlayed">>).n,
              d |-> previous_games]
        ELSE R(0)

\* C30: with a previous record of 0 games and current games > 0 every
\* blended tracked stat is w_current times the current value, w_current at
\* least 15%; in general a blended tracked stat lies between the current
\* value and previous per-game rate times current games.
BlendWithinSeasons ==
    Blended =>
        \A key \in Range(numeric_keys) :
            LET current_val == _get_stat(fn_args.current_stats, <<key>>)
                projected == PreviousRateProjected(key)
                w_current == _calculate_dynamic_weights(fn_args.current_stats)[1]
                value == _get_stat(fn_result, <<key>>)
            IN  /\ _get_stat(fn_args.previous_stats, <<"gamesPlayed">>).n = 0
                      => /\ REq(RScale(value, WeightScale), RScale(current_val, w_current))
                         /\ w_current >= 150
                /\ \/ RLe(current_val, value) /\ RLe(value, projected)
                   \/ RLe(projected, value) /\ RLe(value, current_val)

\* 20 goals in 10 games next to a previous record of 0 games: 3 goals remain.
BlendWitness ==
    /\ Blended
    /\ _get_stat(fn_args.previous_stats, <<"gamesPlayed">>).n = 0
    /\ _get_stat(fn_args.current_stats, <<"gamesPlayed">>).n = 10
    /\ _get_stat(fn_args.current_stats, <<"goals">>).n = 20
    /\ REq(_get_stat(fn_result, <<"goals">>), R(3))

(***************************************************************************)
(* Specifications                                                          *)
(***************************************************************************)
BudgetNext == Evaluate \/ Reprice

ScoreNext == CalculatePoints

InitBudget == BudgetInit /\ ScoreIdle /\ OptIdle /\ CallIdle

SpecBudget == InitBudget /\ [][BudgetNext]_vars

InitScore == ScoreInit /\ BudgetIdle /\ OptIdle /\ CallIdle

SpecScore == InitScore /\ [][ScoreNext]_vars

OptNext == BuildStart \/ GreedyFill \/ SwapPass \/ SelectSubstitutes \/ IterativePass

InitOpt == OptInit /\ BudgetIdle /\ ScoreIdle /\ CallIdle

Spec == InitOpt /\ [][OptNext]_vars

\* The loop of _optimize_lineup_swaps runs on: a pass that can be made is made.
SpecTerminating == InitOpt /\ [][OptNext]_vars /\ WF_vars(SwapPass)

PositionNext == NormalizePosition \/ NormalizeAgain

InitPosition == PositionInit /\ BudgetIdle /\ ScoreIdle /\ OptIdle

SpecPosition == InitPosition /\ [][PositionNext]_vars

GetStatNext == GetStat

InitGetStat == GetStatInit /\ BudgetIdle /\ ScoreIdle /\ OptIdle

SpecGetStat == InitGetStat /\ [][GetStatNext]_vars

ReportNext == GenerateReport

InitReport == ReportInit /\ BudgetIdle /\ ScoreIdle /\ OptIdle

SpecReport == InitReport /\ [][ReportNext]_vars

AdvancedNext == AdvancedOptimize

InitAdvanced == AdvancedInit /\ BudgetIdle /\ ScoreIdle /\ OptIdle

SpecAdvanced == InitAdvanced /\ [][AdvancedNext]_vars

RoundNext == Round \/ Repair \/ FinalMetrics

InitRound == RoundInit /\ BudgetIdle /\ ScoreIdle /\ OptIdle

SpecRound == InitRound /\ [][RoundNext]_vars

WeightsNext == DynamicWeights

InitWeights == WeightsInit /\ BudgetIdle /\ ScoreIdle /\ OptIdle

SpecWeights == InitWeights /\ [][WeightsNext]_vars

BreakdownNext == ScoringBreakdown

InitBreakdown == BreakdownInit /\ BudgetIdle /\ ScoreIdle /\ OptIdle

SpecBreakdown == InitBreakdown /\ [][BreakdownNext]_vars

BlendNext == Blend

InitBlend == BlendInit /\ BudgetIdle /\ ScoreIdle /\ OptIdle

SpecBlend == InitBlend /\ [][BlendNext]_vars

====
